---- MODULE Spec2Model ----
(***************************************************************************)
(* A model of the double-array trie of libdatrie-rs: the AlphaMap, the     *)
(* DArray (base/check cells with the embedded free list), the Tail pool    *)
(* and the Trie facade (store, store_if_absent, delete, retrieve,          *)
(* iteration, serialization).                                              *)
(*                                                                         *)
(* Cells are a sequence; cell i of the code is cells[i + 1] here.          *)
(* Option<TrieIndex> results are encoded with NoIndex for None, and        *)
(* Option<&TrieData> with NoData for None.                                 *)
(***************************************************************************)
EXTENDS Integers, Sequences, FiniteSets, TLC

(***************************************************************************)
(* Program constants                                                       *)
(***************************************************************************)
TRIE_INDEX_MAX == 2147483647

\* the value of TRIE_INDEX_MAX in the build that runs: the one of types.rs, or,
\* for the tries whose pool gets full, a small number in its place.  It is
\* what extend_pool, fit_symbols and da_insert_branch compare indices with,
\* and no call changes it.
VARIABLES index_max
TRIE_INDEX_ERROR == 0
TRIE_CHAR_TERM == 0
TRIE_CHAR_MAX == 255
DA_POOL_BEGIN == 3
\* 0xdafcdafc and 0xd9fcd9fc read as i32
DA_SIGNATURE == -620963076
ALPHAMAP_SIGNATURE == -637740548
\* the tail section's signature 0xdffcdffc read as i32
TAIL_SIGNATURE == -537075716

\* None of an Option<TrieIndex>: no cell index is negative
NoIndex == -1
\* None of an Option<TrieData>; the payloads of the model are positive
NoData == 0

(***************************************************************************)
(* Bounds of the model                                                     *)
(***************************************************************************)
\* the keys of the model are the first NumKeys words over the alphabet
NumKeys == 6
\* number of mutating calls in one behaviour
MaxOps == 3

Min(a, b) == IF a < b THEN a ELSE b

(***************************************************************************)
(* DArray                                                                  *)
(***************************************************************************)
\* cells.get(s as usize) is Some
InCells(d, s) == s >= 0 /\ s < Len(d)

get_free_list == 1

get_root == 2

\* get_base(s) with None read as TRIE_INDEX_ERROR
get_base(d, s) == IF InCells(d, s) THEN d[s + 1].base ELSE TRIE_INDEX_ERROR

set_base(d, s, val) == IF InCells(d, s) THEN [d EXCEPT ![s + 1].base = val] ELSE d

\* get_check(s) with None read as TRIE_INDEX_ERROR
get_check(d, s) == IF InCells(d, s) THEN d[s + 1].check ELSE TRIE_INDEX_ERROR

set_check(d, s, val) == IF InCells(d, s) THEN [d EXCEPT ![s + 1].check = val] ELSE d

\* get_check(n) == Some(s)
check_is(d, n, s) == InCells(d, n) /\ d[n + 1].check = s

is_separate(d, s) == get_base(d, s) < 0

get_tail_index(d, s) == -get_base(d, s)

set_tail_index(d, s, t) == set_base(d, s, -t)

da_walk(d, s, c) ==
    LET walked(next) == IF check_is(d, next, s) THEN next ELSE NoIndex
    IN  walked(get_base(d, s) + c)

DArrayDefault ==
    << [base |-> DA_SIGNATURE, check |-> 3],
       [base |-> -1, check |-> -1],
       [base |-> DA_POOL_BEGIN, check |-> 0] >>

\* extend_pool that refuses negative indexes only
extend_pool_zero_accepted(d, to_index) ==
    IF to_index < 0 \/ to_index >= index_max
    THEN [ok |-> FALSE, da |-> d]
    ELSE IF to_index < Len(d)
    THEN [ok |-> TRUE, da |-> d]
    ELSE
      LET new_begin == Len(d)
          \* update header cell
          header(d5) == [d5 EXCEPT ![1].check = Len(d5)]
          \* merge the new circular list to the old
          merge(d1, free_tail) ==
              header(set_base(set_check(set_base(set_check(d1, free_tail, -new_begin),
                                                 new_begin, -free_tail),
                                        to_index, -get_free_list),
                              get_free_list, -to_index))
          merged(d1) == merge(d1, -get_base(d1, get_free_list))
      IN  \* resize, then for i in new_begin..to_index: check(i) = -(i+1), base(i+1) = -i
          [ok |-> TRUE,
           da |-> merged([j \in 1..(to_index + 1) |->
                            IF j - 1 < new_begin THEN d[j]
                            ELSE [base  |-> IF j - 1 > new_begin THEN -(j - 2) ELSE 0,
                                  check |-> IF j - 1 < to_index THEN -j ELSE 0]])]

extend_pool(d, to_index) ==
    IF to_index <= 0 \/ to_index >= index_max
    THEN [ok |-> FALSE, da |-> d]
    ELSE IF to_index < Len(d)
    THEN [ok |-> TRUE, da |-> d]
    ELSE
      LET new_begin == Len(d)
          \* update header cell
          header(d5) == [d5 EXCEPT ![1].check = Len(d5)]
          \* merge the new circular list to the old
          merge(d1, free_tail) ==
              header(set_base(set_check(set_base(set_check(d1, free_tail, -new_begin),
                                                 new_begin, -free_tail),
                                        to_index, -get_free_list),
                              get_free_list, -to_index))
          merged(d1) == merge(d1, -get_base(d1, get_free_list))
      IN  \* resize, then for i in new_begin..to_index: check(i) = -(i+1), base(i+1) = -i
          [ok |-> TRUE,
           da |-> merged([j \in 1..(to_index + 1) |->
                            IF j - 1 < new_begin THEN d[j]
                            ELSE [base  |-> IF j - 1 > new_begin THEN -(j - 2) ELSE 0,
                                  check |-> IF j - 1 < to_index THEN -j ELSE 0]])]

check_free_cell(d, s) ==
    LET extended(e) ==
            IF ~e.ok THEN [ok |-> FALSE, da |-> e.da]
            ELSE [ok |-> InCells(e.da, s) /\ get_check(e.da, s) < 0, da |-> e.da]
    IN  extended(extend_pool(d, s))

\* the c of 0..=max_c with get_check(base + c) == Some(s), ascending
ChildSymbols(d, s, base) ==
    LET max_c == Min(TRIE_CHAR_MAX, Len(d) - base)
    IN  SelectSeq([j \in 1..(max_c + 1) |-> j - 1],
                  LAMBDA c : check_is(d, base + c, s))

\* has_children that finds no child
has_children_none(d, s) == FALSE

has_children(d, s) ==
    IF ~InCells(d, s) THEN FALSE
    ELSE IF get_base(d, s) < 0 THEN FALSE
    ELSE ChildSymbols(d, s, get_base(d, s)) # << >>

output_symbols(d, s) == ChildSymbols(d, s, get_base(d, s))

\* Symbols::add: insertion into the ascending list, no duplicate
SymbolsAdd(syms, c) ==
    IF \E i \in 1..Len(syms) : syms[i] = c THEN syms
    ELSE SelectSeq(syms, LAMBDA x : x < c) \o << c >> \o SelectSeq(syms, LAMBDA x : x > c)

RECURSIVE fit_symbols_from(_, _, _, _)
fit_symbols_from(d, base, symbols, i) ==
    IF i > Len(symbols) THEN [ok |-> TRUE, da |-> d]
    ELSE IF base > index_max - symbols[i] THEN [ok |-> FALSE, da |-> d]
    ELSE LET checked(f) ==
                 IF ~f.ok THEN [ok |-> FALSE, da |-> f.da]
                 ELSE fit_symbols_from(f.da, base, symbols, i + 1)
         IN  checked(check_free_cell(d, base + symbols[i]))

\* fit_symbols that looks at the cell of the first symbol only
fit_symbols_first_only(d, base, symbols) == fit_symbols_from(d, base, << symbols[1] >>, 1)

fit_symbols(d, base, symbols) == fit_symbols_from(d, base, symbols, 1)

\* find_free_base, first loop: the first free cell beyond the first symbol
RECURSIVE ffb_skip(_, _, _)
ffb_skip(d, s, first_sym) ==
    IF s # get_free_list /\ s < first_sym + DA_POOL_BEGIN
    THEN ffb_skip(d, -get_check(d, s), first_sym)
    ELSE s

\* find_free_base, the loop taken when the free list holds no such cell
RECURSIVE ffb_extend(_, _)
ffb_extend(d, s) ==
    LET extended(e) ==
            IF ~e.ok THEN [ok |-> FALSE, s |-> s, da |-> e.da]
            ELSE IF get_check(e.da, s) < 0 THEN [ok |-> TRUE, s |-> s, da |-> e.da]
            ELSE ffb_extend(e.da, s + 1)
    IN  extended(extend_pool(d, s))

\* find_free_base, second loop: the next free cell that fits the symbols
RECURSIVE ffb_search(_, _, _)
ffb_search(d, s, symbols) ==
    LET first_sym == symbols[1]
        extended(e) ==
            IF ~e.ok THEN [base |-> TRIE_INDEX_ERROR, da |-> e.da]
            ELSE ffb_search(e.da, -get_check(e.da, s), symbols)
        fitted(f) ==
            IF f.ok THEN [base |-> s - first_sym, da |-> f.da]
            ELSE IF -get_check(f.da, s) = get_free_list
            THEN extended(extend_pool(f.da, Len(f.da)))
            ELSE ffb_search(f.da, -get_check(f.da, s), symbols)
    IN  fitted(fit_symbols(d, s - first_sym, symbols))

find_free_base(d, symbols) ==
    LET first_sym == symbols[1]
        extended(x) ==
            IF ~x.ok THEN [base |-> TRIE_INDEX_ERROR, da |-> x.da]
            ELSE ffb_search(x.da, x.s, symbols)
        skipped(s) ==
            IF s = get_free_list THEN extended(ffb_extend(d, first_sym + DA_POOL_BEGIN))
            ELSE ffb_search(d, s, symbols)
    IN  skipped(ffb_skip(d, -get_check(d, get_free_list), first_sym))

alloc_cell(d, cell) ==
    LET unlink(prev, next) == set_base(set_check(d, prev, -next), next, -prev)
    IN  unlink(-get_base(d, cell), -get_check(d, cell))

\* free_cell, the search for the insertion point
RECURSIVE free_cell_point(_, _, _)
\* free_cell that does not search: the cell goes in front of the first free cell
free_cell_point_first(d, i, cell) == i

free_cell_point(d, i, cell) ==
    IF i # get_free_list /\ i < cell
    THEN free_cell_point(d, -get_check(d, i), cell)
    ELSE i

\* free_cell that links the cell forward only: the cell after it keeps its
\* old back link
free_cell_forward_only(d, cell) ==
    LET link(i, prev) ==
            set_check(set_base(set_check(d, cell, -i), cell, -prev), prev, -cell)
        before(i) == link(i, -get_base(d, i))
    IN  before(free_cell_point(d, -get_check(d, get_free_list), cell))

free_cell(d, cell) ==
    LET link(i, prev) ==
            set_base(set_check(set_base(set_check(d, cell, -i), cell, -prev), prev, -cell),
                     i, -cell)
        before(i) == link(i, -get_base(d, i))
    IN  before(free_cell_point(d, -get_check(d, get_free_list), cell))

RECURSIVE prune_upto(_, _, _)
\* prune_upto that frees the cell without looking for the children it has left
prune_upto_children_left(d, p, s) ==
    IF p # s
    THEN prune_upto(free_cell(d, s), p, get_check(d, s))
    ELSE d

prune_upto(d, p, s) ==
    IF p # s /\ ~has_children(d, s)
    THEN prune_upto(free_cell(d, s), p, get_check(d, s))
    ELSE d

\* prune that frees the cell and leaves its ancestors as they are
prune_one_cell(d, s) == IF s # get_root THEN free_cell(d, s) ELSE d

prune(d, s) == prune_upto(d, get_root, s)

\* da_relocate_base, one round of the loop over the symbols of s
\* relocate_one that leaves the children of the moved cell with their old parent
relocate_one_children_left(d, s, old_base, new_base, sym) ==
    LET old_next == old_base + sym
        new_next == new_base + sym
    IN  free_cell(set_base(set_check(alloc_cell(d, new_next), new_next, s),
                           new_next, get_base(d, old_next)),
                  old_next)

relocate_one(d, s, old_base, new_base, sym) ==
    LET old_next == old_base + sym
        new_next == new_base + sym
        \* the children of old_next get new_next for a parent
        children(d3, old_next_base) ==
            IF old_next_base > 0
            THEN [j \in 1..Len(d3) |->
                    IF /\ j - 1 >= old_next_base
                       /\ j - 1 <= old_next_base + Min(TRIE_CHAR_MAX, Len(d3) - old_next_base)
                       /\ d3[j].check = old_next
                    THEN [d3[j] EXCEPT !.check = new_next]
                    ELSE d3[j]]
            ELSE d3
        moved(old_next_base) ==
            children(set_base(set_check(alloc_cell(d, new_next), new_next, s),
                              new_next, old_next_base),
                     old_next_base)
    IN  free_cell(moved(get_base(d, old_next)), old_next)

RECURSIVE relocate_loop(_, _, _, _, _, _)
relocate_loop(d, s, old_base, new_base, symbols, i) ==
    IF i > Len(symbols) THEN d
    ELSE relocate_loop(relocate_one(d, s, old_base, new_base, symbols[i]),
                       s, old_base, new_base, symbols, i + 1)

da_relocate_base(d, s, new_base) ==
    set_base(relocate_loop(d, s, get_base(d, s), new_base, output_symbols(d, s), 1),
             s, new_base)

\* the result is [next, da]; next = TRIE_INDEX_ERROR when no base was found
da_insert_branch(d, s, c) ==
    LET base == get_base(d, s)
        place(dd, next) == [next |-> next, da |-> set_check(alloc_cell(dd, next), next, s)]
        \* relocate BASE[s] to the free base found
        relocated(nb) ==
            IF nb.base = 0 THEN [next |-> TRIE_INDEX_ERROR, da |-> nb.da]
            ELSE place(da_relocate_base(nb.da, s, nb.base), nb.base + c)
        \* the cell base + c is free, or the branches of s and c need another base
        checked(f) ==
            IF ~f.ok
            THEN relocated(find_free_base(f.da, SymbolsAdd(output_symbols(f.da, s), c)))
            ELSE place(f.da, base + c)
        \* s had no base
        based(nb) ==
            IF nb.base = 0 THEN [next |-> TRIE_INDEX_ERROR, da |-> nb.da]
            ELSE place(set_base(nb.da, s, nb.base), nb.base + c)
    IN  IF base > TRIE_INDEX_ERROR
        THEN IF check_is(d, base + c, s) THEN [next |-> base + c, da |-> d]
             ELSE IF base > index_max - c THEN checked([ok |-> FALSE, da |-> d])
             ELSE checked(check_free_cell(d, base + c))
        ELSE based(find_free_base(d, << c >>))

RECURSIVE da_first_separate(_, _, _)
\* da_first_separate that goes down the last child, not the first
da_first_separate_last_child(d, root, keybuff) ==
    LET down(base, syms) ==
            IF syms = << >> THEN [sep |-> TRIE_INDEX_ERROR, key |-> keybuff]
            ELSE da_first_separate(d, base + syms[Len(syms)],
                                   Append(keybuff, syms[Len(syms)]))
        from(base) ==
            IF base < 0 THEN [sep |-> root, key |-> keybuff]
            ELSE down(base, ChildSymbols(d, root, base))
    IN  from(get_base(d, root))

\* the result is [sep, key]; sep = TRIE_INDEX_ERROR when root has no child
da_first_separate(d, root, keybuff) ==
    LET down(base, syms) ==
            IF syms = << >> THEN [sep |-> TRIE_INDEX_ERROR, key |-> keybuff]
            ELSE da_first_separate(d, base + syms[1], Append(keybuff, syms[1]))
        from(base) ==
            IF base < 0 THEN [sep |-> root, key |-> keybuff]
            ELSE down(base, ChildSymbols(d, root, base))
    IN  from(get_base(d, root))

\* trie_string_cut_last
cut_last(keybuff) == IF keybuff = << >> THEN keybuff ELSE SubSeq(keybuff, 1, Len(keybuff) - 1)

RECURSIVE da_next_separate(_, _, _, _)
\* da_next_separate that gives up where it should go up: a cell without a later
\* sibling ends the search
da_next_separate_no_climb(d, root, sep, keybuff) ==
    IF sep = root THEN [sep |-> TRIE_INDEX_ERROR, key |-> keybuff]
    ELSE LET sibling(parent, base, later) ==
                 IF later # << >>
                 THEN da_first_separate(d, base + later[1],
                                        Append(cut_last(keybuff), later[1]))
                 ELSE [sep |-> TRIE_INDEX_ERROR, key |-> cut_last(keybuff)]
             under(parent, base) ==
                 sibling(parent, base,
                         SelectSeq(ChildSymbols(d, parent, base), LAMBDA x : x > sep - base))
             up(parent) == under(parent, get_base(d, parent))
         IN  up(get_check(d, sep))

da_next_separate(d, root, sep, keybuff) ==
    IF sep = root THEN [sep |-> TRIE_INDEX_ERROR, key |-> keybuff]
    ELSE LET sibling(parent, base, later) ==
                 IF later # << >>
                 THEN da_first_separate(d, base + later[1],
                                        Append(cut_last(keybuff), later[1]))
                 ELSE da_next_separate(d, root, parent, cut_last(keybuff))
             under(parent, base) ==
                 sibling(parent, base,
                         SelectSeq(ChildSymbols(d, parent, base), LAMBDA x : x > sep - base))
             up(parent) == under(parent, get_base(d, parent))
         IN  up(get_check(d, sep))

(***************************************************************************)
(* AlphaMap                                                                *)
(***************************************************************************)
\* An AlphaChar is a u32; it is written here as the i32 with the same bits, the
\* number that serialization stores for it.  Sums and differences of i32 are
\* then the wrapping ones of u32, and the order of u32 is ULe.
\* AlphaChar::MAX
ALPHA_CHAR_ERROR == -1

\* a <= b of two u32
ULe(a, b) == IF (a < 0) = (b < 0) THEN a <= b ELSE b < 0

AlphaMapDefault ==
    [ranges |-> << >>, alpha_begin |-> 0, alpha_end |-> 0,
     alpha_to_trie_map |-> << >>, trie_to_alpha_map |-> << >>]

\* the linked list of ranges as nodes 1..n with next pointers; 0 is the null pointer
RangeHeap(ranges) ==
    [i \in 1..Len(ranges) |->
        [begin |-> ranges[i].begin, end |-> ranges[i].end,
         next |-> IF i < Len(ranges) THEN i + 1 ELSE 0]]

RECURSIVE RangeList(_, _)
RangeList(h, p) ==
    IF p = 0 THEN << >>
    ELSE << [begin |-> h[p].begin, end |-> h[p].end] >> \o RangeList(h, h[p].next)

\* alpha_map_add_range_only, first loop: look for the node holding or touching begin
RECURSIVE aro_begin(_, _)
aro_begin(st, begin) ==
    LET r == st.r IN
    IF r # 0 /\ ULe(st.h[r].begin, begin)
    THEN IF ULe(begin, st.h[r].end)
         THEN [st EXCEPT !.bn = r]
         ELSE IF st.h[r].end + 1 = begin
         THEN [st EXCEPT !.h[r].end = begin, !.bn = r]
         ELSE aro_begin([st EXCEPT !.q = r, !.r = st.h[r].next], begin)
    ELSE st

\* alpha_map_add_range_only, second loop: drop the nodes the new range covers
RECURSIVE aro_end(_, _)
aro_end(st, end) ==
    LET r == st.r IN
    IF r # 0 /\ ULe(st.h[r].begin, end + 1)
    THEN IF ULe(end, st.h[r].end)
         THEN aro_end([st EXCEPT !.en = r, !.q = r, !.r = st.h[r].next], end)
         ELSE IF r # st.bn
         THEN IF st.q # 0
              THEN aro_end([st EXCEPT !.h[st.q].next = st.h[r].next,
                                      !.r = st.h[r].next], end)
              ELSE aro_end([st EXCEPT !.first = st.h[r].next,
                                      !.r = st.h[r].next], end)
         ELSE aro_end([st EXCEPT !.q = r, !.r = st.h[r].next], end)
    ELSE st

\* the result is [res, ranges, overflow]; res is the C return code (0 on
\* success); overflow tells that end + 1 was computed for end = u32::MAX, which
\* panics in a build with overflow checks and is 0 in one without
alpha_map_add_range_only(ranges, begin, end) ==
    IF ~ULe(begin, end) THEN [res |-> -1, ranges |-> ranges, overflow |-> FALSE]
    ELSE
      LET n == Len(ranges)
          st0 == [h |-> RangeHeap(ranges), first |-> IF n > 0 THEN 1 ELSE 0,
                  r |-> IF n > 0 THEN 1 ELSE 0, q |-> 0, bn |-> 0, en |-> 0]
          \* the range starts right before the node the first loop stopped at
          begin_touched(st1) ==
              IF st1.bn = 0 /\ st1.r # 0 /\ ULe(st1.h[st1.r].begin, end + 1)
              THEN [st1 EXCEPT !.h[st1.r].begin = begin, !.bn = st1.r]
              ELSE st1
          \* the range ends beyond the last node the second loop passed
          end_touched(st3) ==
              IF st3.en = 0 /\ st3.q # 0 /\ ULe(begin, st3.h[st3.q].end)
              THEN [st3 EXCEPT !.h[st3.q].end = end, !.en = st3.q]
              ELSE st3
          \* merge the two nodes, or insert a new node between q and r
          joined(st4) ==
              IF st4.bn # 0 /\ st4.en # 0
              THEN IF st4.bn # st4.en
                   THEN [st4 EXCEPT !.h[st4.bn].end = st4.h[st4.en].end,
                                    !.h[st4.bn].next = st4.h[st4.en].next]
                   ELSE st4
              ELSE IF st4.bn = 0 /\ st4.en = 0
              THEN [st4 EXCEPT
                      !.h = [i \in 1..(n + 1) |->
                               IF i = n + 1
                               THEN [begin |-> begin, end |-> end, next |-> st4.r]
                               ELSE IF i = st4.q THEN [st4.h[i] EXCEPT !.next = n + 1]
                               ELSE st4.h[i]],
                      !.first = IF st4.q # 0 THEN st4.first ELSE n + 1]
              ELSE st4
          listed(st5) == RangeList(st5.h, st5.first)
          \* both tests against end + 1 come after the first loop, with r not null
          second_loop(st1) ==
              [res |-> 0,
               ranges |-> listed(joined(end_touched(aro_end(begin_touched(st1), end)))),
               overflow |-> end = ALPHA_CHAR_ERROR /\ st1.r # 0]
      IN  second_loop(aro_begin(st0, begin))

RECURSIVE RangeSizes(_, _)
RangeSizes(ranges, i) ==
    IF i > Len(ranges) THEN 0
    ELSE (ranges[i].end - ranges[i].begin + 1) + RangeSizes(ranges, i + 1)

\* the characters of the ranges in list order: the a-th of them gets trie symbol a
RECURSIVE RangeChars(_, _)
RangeChars(ranges, i) ==
    IF i > Len(ranges) THEN << >>
    ELSE [k \in 1..(ranges[i].end - ranges[i].begin + 1) |-> ranges[i].begin + k - 1]
         \o RangeChars(ranges, i + 1)

\* the result is [res, am, defined].  res = -1 when malloc returns NULL: n_alpha
\* is negative as a c_int and asks for nearly 2^64 bytes; the tables stay null.
\* defined is FALSE when the loop that fills the tables writes outside them (a
\* range that ends at u32::MAX never ends the loop, a range may lie outside
\* alpha_begin..alpha_end after end + 1 has wrapped) or when n_alpha = 0 leaves
\* the answer to malloc(0); am is then not what a build makes of it.
alpha_map_recalc_work_area(ranges) ==
    IF ranges = << >>
    THEN [res |-> 0, am |-> [AlphaMapDefault EXCEPT !.ranges = ranges], defined |-> TRUE]
    ELSE
      LET alpha_begin == ranges[1].begin
          total == RangeSizes(ranges, 1)
          n_trie == IF total < TRIE_CHAR_TERM THEN TRIE_CHAR_TERM + 1 ELSE total + 1
          alpha_end == ranges[Len(ranges)].end
          n_alpha == alpha_end - alpha_begin + 1
          inside == \A i \in 1..Len(ranges) :
                        /\ ranges[i].end # ALPHA_CHAR_ERROR
                        /\ ULe(alpha_begin, ranges[i].begin)
                        /\ ULe(ranges[i].end, alpha_end)
          \* the symbol the loop leaves for a: a's place in the last range that
          \* holds it, after the characters of the ranges before; starts[i] is
          \* the number of those
          symbol(a, starts, holding) ==
              IF holding = {} THEN TRIE_INDEX_MAX
              ELSE LET i == CHOOSE h \in holding : \A g \in holding : g <= h
                   IN  starts[i] + (a - ranges[i].begin) + 1
          tables(chars, starts) ==
              [ranges |-> ranges,
               alpha_begin |-> alpha_begin,
               alpha_end |-> alpha_end,
               alpha_to_trie_map |->
                  [i \in 1..n_alpha |->
                     symbol(alpha_begin + i - 1, starts,
                            {h \in 1..Len(ranges) :
                                /\ ULe(ranges[h].begin, alpha_begin + i - 1)
                                /\ ULe(alpha_begin + i - 1, ranges[h].end)})],
               trie_to_alpha_map |->
                  [j \in 1..n_trie |->
                     IF j - 1 = TRIE_CHAR_TERM THEN 0
                     ELSE IF j - 1 <= Len(chars) THEN chars[j - 1]
                     ELSE ALPHA_CHAR_ERROR]]
          filled(chars) ==
              [res |-> 0,
               defined |-> n_alpha > 0 /\ inside /\ Len(chars) < n_trie,
               am |-> tables(chars, [i \in 1..Len(ranges) |->
                                        RangeSizes(SubSeq(ranges, 1, i - 1), 1)])]
      IN  IF n_alpha < 0
          THEN [res |-> -1,
                am |-> [AlphaMapDefault EXCEPT !.ranges = ranges,
                                               !.alpha_begin = alpha_begin,
                                               !.alpha_end = alpha_end],
                defined |-> TRUE]
          ELSE filled(RangeChars(ranges, 1))

\* the result is [res, am, overflow, defined]
alpha_map_add_range(am, begin, end) ==
    LET recalculated(a, w) ==
            [res |-> w.res, am |-> w.am, overflow |-> a.overflow, defined |-> w.defined]
        added(a) ==
            IF a.res # 0
            THEN [res |-> a.res, am |-> am, overflow |-> FALSE, defined |-> TRUE]
            ELSE recalculated(a, alpha_map_recalc_work_area(a.ranges))
    IN  added(alpha_map_add_range_only(am.ranges, begin, end))

\* alpha_map_char_to_trie without the test against alpha_end: a character past
\* the last range gets the symbol of the last character
alpha_map_char_to_trie_unbounded(am, ac) ==
    IF ac = 0 THEN TRIE_CHAR_TERM
    ELSE IF am.alpha_to_trie_map = << >> THEN TRIE_INDEX_MAX
    ELSE IF ac >= am.alpha_begin
    THEN am.alpha_to_trie_map[Min(ac, am.alpha_end) - am.alpha_begin + 1]
    ELSE TRIE_INDEX_MAX

\* alpha_map_char_to_trie that reads the table from its end
alpha_map_char_to_trie_backwards(am, ac) ==
    IF ac = 0 THEN TRIE_CHAR_TERM
    ELSE IF am.alpha_to_trie_map = << >> THEN TRIE_INDEX_MAX
    ELSE IF ULe(am.alpha_begin, ac) /\ ULe(ac, am.alpha_end)
    THEN am.alpha_to_trie_map[am.alpha_end - ac + 1]
    ELSE TRIE_INDEX_MAX

\* TRIE_INDEX_MAX is the "not in the alphabet" answer (None of char_to_trie)
alpha_map_char_to_trie(am, ac) ==
    IF ac = 0 THEN TRIE_CHAR_TERM
    ELSE IF am.alpha_to_trie_map = << >> THEN TRIE_INDEX_MAX
    ELSE IF ULe(am.alpha_begin, ac) /\ ULe(ac, am.alpha_end)
    THEN am.alpha_to_trie_map[ac - am.alpha_begin + 1]
    ELSE TRIE_INDEX_MAX

\* tc as TrieChar, of a TrieIndex: its low eight bits
AsTrieChar(tc) == tc % 256

alpha_map_trie_to_char(am, tc) ==
    IF tc + 1 <= Len(am.trie_to_alpha_map) THEN am.trie_to_alpha_map[tc + 1]
    ELSE ALPHA_CHAR_ERROR

\* alpha_char_strlen: the characters before the first 0
RECURSIVE alpha_char_strlen(_)
alpha_char_strlen(str) ==
    IF str = << >> \/ Head(str) = 0 THEN 0 ELSE 1 + alpha_char_strlen(Tail(str))

\* the result is [ok, str]: the packed string with its terminator, or None
alpha_map_char_to_trie_str(am, str) ==
    LET packed(tcs) ==
            IF \E i \in 1..Len(tcs) : tcs[i] = TRIE_INDEX_MAX
            THEN [ok |-> FALSE, str |-> << >>]
            ELSE [ok |-> TRUE,
                  str |-> Append([i \in 1..Len(tcs) |-> AsTrieChar(tcs[i])], TRIE_CHAR_TERM)]
    IN  packed([i \in 1..alpha_char_strlen(str) |-> alpha_map_char_to_trie(am, str[i])])

\* trie_char_strlen: the symbols before the first terminator
RECURSIVE trie_char_strlen(_)
trie_char_strlen(str) ==
    IF str = << >> \/ Head(str) = TRIE_CHAR_TERM THEN 0 ELSE 1 + trie_char_strlen(Tail(str))

\* the symbols before the first terminator, decoded, and a 0 after them
alpha_map_trie_to_char_str(am, str) ==
    Append([i \in 1..trie_char_strlen(str) |-> alpha_map_trie_to_char(am, str[i])], 0)

\* the iterator adaptor over trie symbols: alpha_map_trie_to_char_str without
\* the 0 it appends
map_to_alpha_char(am, tstr) ==
    LET unterminated(out) == SubSeq(out, 1, Len(out) - 1)
    IN  unterminated(alpha_map_trie_to_char_str(am, tstr))

(***************************************************************************)
(* Tail: the pool of suffixes.  Entry t of the code is tails[t]; the       *)
(* sentinel entry 0 is the field first_free (0: no free entry).  A free    *)
(* entry has the suffix << >> (None) and the data NoData.                  *)
(***************************************************************************)
TailDefault == [first_free |-> 0, tails |-> << >>]

TailAllocated(tl, t) == t >= 1 /\ t <= Len(tl.tails) /\ tl.tails[t].suffix # << >>

\* the stored suffix always ends with the terminator
Terminated(suffix) ==
    IF suffix # << >> /\ suffix[Len(suffix)] = TRIE_CHAR_TERM THEN suffix
    ELSE Append(suffix, TRIE_CHAR_TERM)

\* the result is [t, tail]: a freed entry is reused, else one is appended
tail_add_suffix(tl, suffix) ==
    LET entry == [next_free |-> -1, suffix |-> Terminated(suffix), data |-> NoData]
    IN  IF tl.first_free # 0
        THEN LET t == tl.first_free
             IN  [t |-> t,
                  tail |-> [first_free |-> tl.tails[t].next_free,
                            tails |-> [tl.tails EXCEPT ![t] = entry]]]
        ELSE [t |-> Len(tl.tails) + 1,
              tail |-> [tl EXCEPT !.tails = Append(tl.tails, entry)]]

\* None is << >>
tail_get_suffix(tl, t) == IF TailAllocated(tl, t) THEN tl.tails[t].suffix ELSE << >>

tail_set_suffix(tl, t, suffix) ==
    IF t >= 1 /\ t <= Len(tl.tails) THEN [tl EXCEPT !.tails[t].suffix = suffix] ELSE tl

tail_get_data(tl, t) == IF TailAllocated(tl, t) THEN tl.tails[t].data ELSE NoData

tail_set_data(tl, t, data) ==
    IF t >= 1 /\ t <= Len(tl.tails) THEN [tl EXCEPT !.tails[t].data = data] ELSE tl

tail_delete(tl, t) ==
    IF t >= 1 /\ t <= Len(tl.tails)
    THEN [first_free |-> t,
          tails |-> [tl.tails EXCEPT
                       ![t] = [next_free |-> tl.first_free, suffix |-> << >>, data |-> NoData]]]
    ELSE tl

\* idx + 1 if suffix[idx] == c, else None
tail_walk_char(tl, t, idx, c) ==
    LET suffix == tail_get_suffix(tl, t)
    IN  IF idx >= 0 /\ idx < Len(suffix) /\ suffix[idx + 1] = c THEN idx + 1 ELSE NoIndex

tail_is_walkable_char(tl, t, idx, c) == tail_walk_char(tl, t, idx, c) # NoIndex

(***************************************************************************)
(* Trie facade.  A trie is [alpha_map, da, tail, is_dirty]; a mutating     *)
(* call gives [ret, trie].                                                 *)
(***************************************************************************)
TrieNew(am) ==
    [alpha_map |-> am, da |-> DArrayDefault, tail |-> TailDefault, is_dirty |-> TRUE]

\* branch_in_branch that forgets the payload of the new tail entry
branch_in_branch_no_data(T, sep_node, suffix, data) ==
    LET rest == IF suffix[1] # TRIE_CHAR_TERM THEN Tail(suffix) ELSE suffix
        tailed(ins, added) ==
            [ret |-> TRUE,
             trie |-> [T EXCEPT !.da = set_tail_index(ins.da, ins.next, added.t),
                                !.tail = added.tail,
                                !.is_dirty = TRUE]]
        inserted(ins) ==
            IF ins.next = TRIE_INDEX_ERROR
            THEN [ret |-> FALSE, trie |-> [T EXCEPT !.da = ins.da]]
            ELSE tailed(ins, tail_add_suffix(T.tail, rest))
    IN  inserted(da_insert_branch(T.da, sep_node, suffix[1]))

branch_in_branch(T, sep_node, suffix, data) ==
    LET rest == IF suffix[1] # TRIE_CHAR_TERM THEN Tail(suffix) ELSE suffix
        tailed(ins, added) ==
            [ret |-> TRUE,
             trie |-> [T EXCEPT !.da = set_tail_index(ins.da, ins.next, added.t),
                                !.tail = tail_set_data(added.tail, added.t, data),
                                !.is_dirty = TRUE]]
        inserted(ins) ==
            IF ins.next = TRIE_INDEX_ERROR
            THEN [ret |-> FALSE, trie |-> [T EXCEPT !.da = ins.da]]
            ELSE tailed(ins, tail_add_suffix(T.tail, rest))
    IN  inserted(da_insert_branch(T.da, sep_node, suffix[1]))

\* the loop of branch_in_tail that is left at once: no branch is made for what
\* the old and the new suffix share
bit_common_none(d, s, p, suffix) ==
    [ok |-> TRUE, da |-> d, s |-> s, p |-> p, suffix |-> suffix]

\* branch_in_tail, the loop over the prefix the old and the new suffix share;
\* the result is [ok, da, s, p, suffix]
RECURSIVE bit_common(_, _, _, _)
bit_common(d, s, p, suffix) ==
    LET inserted(ins) ==
            IF ins.next = TRIE_INDEX_ERROR
            THEN [ok |-> FALSE, da |-> ins.da, s |-> s, p |-> p, suffix |-> suffix]
            ELSE bit_common(ins.da, ins.next, Tail(p), Tail(suffix))
    IN  IF p[1] = suffix[1] THEN inserted(da_insert_branch(d, s, p[1]))
        ELSE [ok |-> TRUE, da |-> d, s |-> s, p |-> p, suffix |-> suffix]

\* branch_in_tail that does not point the cell of the old character at the old
\* tail entry
branch_in_tail_old_tail_dropped(T, sep_node, suffix, data) ==
    LET old_tail == get_tail_index(T.da, sep_node)
        old_suffix == tail_get_suffix(T.tail, old_tail)
        fail(d, s) ==
            [ret |-> FALSE,
             trie |-> [T EXCEPT !.da = set_tail_index(prune_upto(d, sep_node, s),
                                                      sep_node, old_tail)]]
        \* the old tail goes below the branch for the rest of its suffix
        branched(w, ins) ==
            IF ins.next = TRIE_INDEX_ERROR THEN fail(ins.da, w.s)
            ELSE branch_in_branch(
                   [T EXCEPT !.da = ins.da,
                             !.tail = tail_set_suffix(T.tail, old_tail,
                                         IF w.p[1] # TRIE_CHAR_TERM THEN Tail(w.p) ELSE w.p)],
                   w.s, w.suffix, data)
        walked(w) ==
            IF ~w.ok THEN fail(w.da, w.s)
            ELSE branched(w, da_insert_branch(w.da, w.s, w.p[1]))
    IN  IF old_suffix = << >> THEN [ret |-> FALSE, trie |-> T]
        ELSE walked(bit_common(T.da, sep_node, old_suffix, suffix))

branch_in_tail(T, sep_node, suffix, data) ==
    LET old_tail == get_tail_index(T.da, sep_node)
        old_suffix == tail_get_suffix(T.tail, old_tail)
        fail(d, s) ==
            [ret |-> FALSE,
             trie |-> [T EXCEPT !.da = set_tail_index(prune_upto(d, sep_node, s),
                                                      sep_node, old_tail)]]
        \* the old tail goes below the branch for the rest of its suffix
        branched(w, ins) ==
            IF ins.next = TRIE_INDEX_ERROR THEN fail(ins.da, w.s)
            ELSE branch_in_branch(
                   [T EXCEPT !.da = set_tail_index(ins.da, ins.next, old_tail),
                             !.tail = tail_set_suffix(T.tail, old_tail,
                                         IF w.p[1] # TRIE_CHAR_TERM THEN Tail(w.p) ELSE w.p)],
                   w.s, w.suffix, data)
        walked(w) ==
            IF ~w.ok THEN fail(w.da, w.s)
            ELSE branched(w, da_insert_branch(w.da, w.s, w.p[1]))
    IN  IF old_suffix = << >> THEN [ret |-> FALSE, trie |-> T]
        ELSE walked(bit_common(T.da, sep_node, old_suffix, suffix))

\* store_conditionally and delete, the walk through the branches; the result is
\* [how, s, p]: "unknown" (a character outside the alphabet), "missing" (no edge
\* from s for p[0]) or "tail" (the walk goes on in the tail of s with p)
RECURSIVE walk_branches(_, _, _)
walk_branches(T, s, p) ==
    IF is_separate(T.da, s) THEN [how |-> "tail", s |-> s, p |-> p]
    ELSE LET walked(next_s) ==
                 IF next_s = NoIndex THEN [how |-> "missing", s |-> s, p |-> p]
                 ELSE IF p[1] = 0 THEN [how |-> "tail", s |-> next_s, p |-> p]
                 ELSE walk_branches(T, next_s, Tail(p))
             mapped(tc) ==
                 IF tc = TRIE_INDEX_MAX THEN [how |-> "unknown", s |-> s, p |-> p]
                 ELSE walked(da_walk(T.da, s, tc))
         IN  mapped(alpha_map_char_to_trie(T.alpha_map, p[1]))

\* store_conditionally and delete, the walk through the tail; the result is
\* "unknown", "mismatch" or "match"
RECURSIVE walk_tail(_, _, _, _, _)
walk_tail(T, t, p, i, suffix_idx) ==
    IF i > Len(p) THEN "match"
    ELSE LET walked(next_idx) ==
                 IF next_idx = NoIndex THEN "mismatch"
                 ELSE IF p[i] = 0 THEN "match"
                 ELSE walk_tail(T, t, p, i + 1, next_idx)
             mapped(tc) ==
                 IF tc = TRIE_INDEX_MAX THEN "unknown"
                 ELSE walked(tail_walk_char(T.tail, t, suffix_idx, tc))
         IN  mapped(alpha_map_char_to_trie(T.alpha_map, p[i]))

store_conditionally(T, key, data, is_overwrite) ==
    LET \* an edge is missing: the rest of the key becomes a new branch
        in_branch(b, key_str) ==
            IF ~key_str.ok THEN [ret |-> FALSE, trie |-> T]
            ELSE branch_in_branch(T, b.s, key_str.str, data)
        \* the tail differs: the rest of the key splits it
        in_tail(b, tail_str) ==
            IF ~tail_str.ok THEN [ret |-> FALSE, trie |-> T]
            ELSE branch_in_tail(T, b.s, tail_str.str, data)
        tail_walked(b, t, w) ==
            IF w = "unknown" THEN [ret |-> FALSE, trie |-> T]
            ELSE IF w = "mismatch"
            THEN in_tail(b, alpha_map_char_to_trie_str(T.alpha_map, b.p))
            ELSE IF ~is_overwrite THEN [ret |-> FALSE, trie |-> T]
            ELSE [ret |-> TRUE,
                  trie |-> [T EXCEPT !.tail = tail_set_data(T.tail, t, data),
                                     !.is_dirty = TRUE]]
        in_separate(b, t) == tail_walked(b, t, walk_tail(T, t, b.p, 1, 0))
        branches_walked(b) ==
            IF b.how = "unknown" THEN [ret |-> FALSE, trie |-> T]
            ELSE IF b.how = "missing"
            THEN in_branch(b, alpha_map_char_to_trie_str(T.alpha_map, b.p))
            ELSE in_separate(b, get_tail_index(T.da, b.s))
    IN  branches_walked(walk_branches(T, get_root, key))

\* store that never overwrites
store_never_overwrites(T, key, data) == store_conditionally(T, key, data, FALSE)

store(T, key, data) == store_conditionally(T, key, data, TRUE)


\* store_if_absent that overwrites
store_if_absent_overwrites(T, key, data) == store_conditionally(T, key, data, TRUE)

store_if_absent(T, key, data) == store_conditionally(T, key, data, FALSE)


\* delete that leaves the tail entry allocated
delete_tail_kept(T, key) ==
    LET found(s, t) ==
            [ret |-> TRUE,
             trie |-> [T EXCEPT
                         !.da = prune(set_base(T.da, s, TRIE_INDEX_ERROR), s),
                         !.is_dirty = TRUE]]
        in_separate(b, t) ==
            IF walk_tail(T, t, b.p, 1, 0) # "match" THEN [ret |-> FALSE, trie |-> T]
            ELSE found(b.s, t)
        branches_walked(b) ==
            IF b.how # "tail" THEN [ret |-> FALSE, trie |-> T]
            ELSE in_separate(b, get_tail_index(T.da, b.s))
    IN  branches_walked(walk_branches(T, get_root, key))

\* delete that does not compare the rest of the key with the tail
delete_tail_unwalked(T, key) ==
    LET found(s, t) ==
            [ret |-> TRUE,
             trie |-> [T EXCEPT
                         !.tail = tail_delete(T.tail, t),
                         !.da = prune(set_base(T.da, s, TRIE_INDEX_ERROR), s),
                         !.is_dirty = TRUE]]
        branches_walked(b) ==
            IF b.how # "tail" THEN [ret |-> FALSE, trie |-> T]
            ELSE found(b.s, get_tail_index(T.da, b.s))
    IN  branches_walked(walk_branches(T, get_root, key))

\* delete that frees the tail entry and leaves the cells of the key in use
delete_cells_kept(T, key) ==
    LET found(s, t) ==
            [ret |-> TRUE,
             trie |-> [T EXCEPT
                         !.tail = tail_delete(T.tail, t),
                         !.da = set_base(T.da, s, TRIE_INDEX_ERROR),
                         !.is_dirty = TRUE]]
        in_separate(b, t) ==
            IF walk_tail(T, t, b.p, 1, 0) # "match" THEN [ret |-> FALSE, trie |-> T]
            ELSE found(b.s, t)
        branches_walked(b) ==
            IF b.how # "tail" THEN [ret |-> FALSE, trie |-> T]
            ELSE in_separate(b, get_tail_index(T.da, b.s))
    IN  branches_walked(walk_branches(T, get_root, key))

delete(T, key) ==
    LET found(s, t) ==
            [ret |-> TRUE,
             trie |-> [T EXCEPT
                         !.tail = tail_delete(T.tail, t),
                         !.da = prune(set_base(T.da, s, TRIE_INDEX_ERROR), s),
                         !.is_dirty = TRUE]]
        in_separate(b, t) ==
            IF walk_tail(T, t, b.p, 1, 0) # "match" THEN [ret |-> FALSE, trie |-> T]
            ELSE found(b.s, t)
        branches_walked(b) ==
            IF b.how # "tail" THEN [ret |-> FALSE, trie |-> T]
            ELSE in_separate(b, get_tail_index(T.da, b.s))
    IN  branches_walked(walk_branches(T, get_root, key))

\* ROTrie::retrieve, the walk through the branches; the result is
\* [ok, s, last_ch, rest]: rest are the characters the iterator still holds
RECURSIVE retrieve_branches(_, _, _, _)
retrieve_branches(T, s, rest, last_ch) ==
    IF rest = << >> THEN [ok |-> TRUE, s |-> s, last_ch |-> last_ch, rest |-> rest]
    ELSE LET ch == Head(rest)
             walked(next_s) ==
                 IF next_s = NoIndex
                 THEN [ok |-> FALSE, s |-> s, last_ch |-> ch, rest |-> Tail(rest)]
                 ELSE IF ch = 0
                 THEN [ok |-> TRUE, s |-> next_s, last_ch |-> ch, rest |-> Tail(rest)]
                 ELSE retrieve_branches(T, next_s, Tail(rest), ch)
             mapped(tc) ==
                 walked(IF tc = TRIE_INDEX_MAX THEN NoIndex ELSE da_walk(T.da, s, tc))
         IN  IF is_separate(T.da, s)
             THEN [ok |-> TRUE, s |-> s, last_ch |-> ch, rest |-> Tail(rest)]
             ELSE mapped(alpha_map_char_to_trie(T.alpha_map, ch))

\* ROTrie::retrieve, the walk through the tail from the last character on
RECURSIVE retrieve_tail(_, _, _, _)
retrieve_tail(T, t, chars, suffix_idx) ==
    IF chars = << >> THEN TRUE
    ELSE LET walked(next_idx) ==
                 IF next_idx = NoIndex THEN FALSE
                 ELSE retrieve_tail(T, t, Tail(chars), next_idx)
             mapped(tc) ==
                 walked(IF tc = TRIE_INDEX_MAX THEN NoIndex
                        ELSE tail_walk_char(T.tail, t, suffix_idx, tc))
         IN  mapped(alpha_map_char_to_trie(T.alpha_map, Head(chars)))

retrieve(T, key) ==
    LET in_separate(b, t) ==
            IF ~retrieve_tail(T, t, << b.last_ch >> \o b.rest, 0) THEN NoData
            ELSE tail_get_data(T.tail, t)
        branches_walked(b) ==
            IF ~b.ok THEN NoData ELSE in_separate(b, get_tail_index(T.da, b.s))
    IN  branches_walked(retrieve_branches(T, get_root, key, ALPHA_CHAR_ERROR))

(***************************************************************************)
(* TrieState and TrieIterator.  A TrieState is [index, suffix_idx,          *)
(* is_suffix]; an iterator is [root, started, state, key], started being   *)
(* "state is Some".                                                        *)
(***************************************************************************)
trie_root(T) == [index |-> get_root, suffix_idx |-> 0, is_suffix |-> FALSE]

TrieIteratorNew(root_state) ==
    [root |-> root_state, started |-> FALSE, state |-> root_state, key |-> << >>]

trie_iter(T) == TrieIteratorNew(trie_root(T))

\* iter_next that searches on from the root of the trie, not from the root
\* state of the iterator
iter_next_whole_trie(T, it) ==
    LET separate(it1, n) ==
            IF n.sep = TRIE_INDEX_ERROR
            THEN [ret |-> FALSE, it |-> [it1 EXCEPT !.key = n.key]]
            ELSE [ret |-> TRUE, it |-> [it1 EXCEPT !.key = n.key, !.state.index = n.sep]]
        first(it1) ==
            IF it1.state.is_suffix THEN [ret |-> TRUE, it |-> it1]
            ELSE separate(it1, da_first_separate(T.da, it1.state.index, it1.key))
    IN  IF it.started
        THEN IF it.state.is_suffix THEN [ret |-> FALSE, it |-> it]
             ELSE separate(it, da_next_separate(T.da, get_root, it.state.index, it.key))
        ELSE first([it EXCEPT !.started = TRUE, !.state = it.root])

\* iter_next that forgets its state when a search finds no separate cell, so
\* that the call after it starts from the root state again
iter_next_starts_over(T, it) ==
    LET separate(it1, n) ==
            IF n.sep = TRIE_INDEX_ERROR
            THEN [ret |-> FALSE, it |-> [it1 EXCEPT !.key = << >>, !.started = FALSE]]
            ELSE [ret |-> TRUE, it |-> [it1 EXCEPT !.key = n.key, !.state.index = n.sep]]
        first(it1) ==
            IF it1.state.is_suffix THEN [ret |-> TRUE, it |-> it1]
            ELSE separate(it1, da_first_separate(T.da, it1.state.index, it1.key))
    IN  IF it.started
        THEN IF it.state.is_suffix THEN [ret |-> FALSE, it |-> it]
             ELSE separate(it, da_next_separate(T.da, it.root.index, it.state.index, it.key))
        ELSE first([it EXCEPT !.started = TRUE, !.state = it.root])

\* the result is [ret, it]
iter_next(T, it) ==
    LET \* the key buffer keeps what the search left in it
        separate(it1, n) ==
            IF n.sep = TRIE_INDEX_ERROR
            THEN [ret |-> FALSE, it |-> [it1 EXCEPT !.key = n.key]]
            ELSE [ret |-> TRUE, it |-> [it1 EXCEPT !.key = n.key, !.state.index = n.sep]]
        first(it1) ==
            IF it1.state.is_suffix THEN [ret |-> TRUE, it |-> it1]
            ELSE separate(it1, da_first_separate(T.da, it1.state.index, it1.key))
    IN  IF it.started
        THEN IF it.state.is_suffix THEN [ret |-> FALSE, it |-> it]
             ELSE separate(it, da_next_separate(T.da, it.root.index, it.state.index, it.key))
        ELSE first([it EXCEPT !.started = TRUE, !.state = it.root])

\* TrieIterator::key that decodes every symbol, the terminators too
iter_key_all_symbols(T, it) ==
    LET decode(str) == [i \in 1..Len(str) |-> alpha_map_trie_to_char(T.alpha_map, str[i])]
        from(str, idx) == SubSeq(str, idx + 1, Len(str))
    IN  IF it.state.is_suffix
        THEN Append(decode(from(tail_get_suffix(T.tail, it.state.index),
                                it.state.suffix_idx)), 0)
        ELSE Append(decode(it.key)
                    \o decode(tail_get_suffix(T.tail, get_tail_index(T.da, it.state.index))),
                    0)

\* TrieIterator::key of a started iterator whose tail entry exists
iter_key(T, it) ==
    LET from(str, idx) == SubSeq(str, idx + 1, Len(str))
    IN  IF it.state.is_suffix
        THEN Append(map_to_alpha_char(T.alpha_map,
                        from(tail_get_suffix(T.tail, it.state.index), it.state.suffix_idx)),
                    0)
        ELSE Append(map_to_alpha_char(T.alpha_map, it.key)
                    \o map_to_alpha_char(T.alpha_map,
                          tail_get_suffix(T.tail, get_tail_index(T.da, it.state.index))),
                    0)

iter_data(T, it) ==
    IF ~it.state.is_suffix
    THEN IF ~is_separate(T.da, it.state.index) THEN NoData
         ELSE tail_get_data(T.tail, get_tail_index(T.da, it.state.index))
    ELSE tail_get_data(T.tail, it.state.index)

\* TrieState::walk that leaves suffix_idx as it is when it enters a tail
state_walk_keeps_suffix_idx(T, st, ch) ==
    LET in_branches(next) ==
            IF next = NoIndex THEN [ret |-> FALSE, state |-> st]
            ELSE IF is_separate(T.da, next)
            THEN [ret |-> TRUE,
                  state |-> [index |-> get_tail_index(T.da, next),
                             suffix_idx |-> st.suffix_idx, is_suffix |-> TRUE]]
            ELSE [ret |-> TRUE, state |-> [st EXCEPT !.index = next]]
        in_tail(next_idx) ==
            IF next_idx = NoIndex THEN [ret |-> FALSE, state |-> st]
            ELSE [ret |-> TRUE, state |-> [st EXCEPT !.suffix_idx = next_idx]]
        mapped(tc) ==
            IF tc = TRIE_INDEX_MAX THEN [ret |-> FALSE, state |-> st]
            ELSE IF ~st.is_suffix THEN in_branches(da_walk(T.da, st.index, AsTrieChar(tc)))
            ELSE in_tail(tail_walk_char(T.tail, st.index, st.suffix_idx, AsTrieChar(tc)))
    IN  mapped(alpha_map_char_to_trie(T.alpha_map, ch))

\* TrieState::walk; the result is [ret, state]
state_walk(T, st, ch) ==
    LET in_branches(next) ==
            IF next = NoIndex THEN [ret |-> FALSE, state |-> st]
            ELSE IF is_separate(T.da, next)
            THEN [ret |-> TRUE,
                  state |-> [index |-> get_tail_index(T.da, next), suffix_idx |-> 0,
                             is_suffix |-> TRUE]]
            ELSE [ret |-> TRUE, state |-> [st EXCEPT !.index = next]]
        in_tail(next_idx) ==
            IF next_idx = NoIndex THEN [ret |-> FALSE, state |-> st]
            ELSE [ret |-> TRUE, state |-> [st EXCEPT !.suffix_idx = next_idx]]
        mapped(tc) ==
            IF tc = TRIE_INDEX_MAX THEN [ret |-> FALSE, state |-> st]
            ELSE IF ~st.is_suffix THEN in_branches(da_walk(T.da, st.index, AsTrieChar(tc)))
            ELSE in_tail(tail_walk_char(T.tail, st.index, st.suffix_idx, AsTrieChar(tc)))
    IN  mapped(alpha_map_char_to_trie(T.alpha_map, ch))

\* TrieState::get_data that does not ask for the terminator in a tail
state_get_data_unterminated(T, st) ==
    LET at(index) ==
            IF index # NoIndex /\ is_separate(T.da, index)
            THEN tail_get_data(T.tail, get_tail_index(T.da, index))
            ELSE NoData
    IN  IF ~st.is_suffix THEN at(da_walk(T.da, st.index, TRIE_CHAR_TERM))
        ELSE tail_get_data(T.tail, st.index)

\* TrieState::get_data; None is NoData
state_get_data(T, st) ==
    LET at(index) ==
            IF index # NoIndex /\ is_separate(T.da, index)
            THEN tail_get_data(T.tail, get_tail_index(T.da, index))
            ELSE NoData
    IN  IF ~st.is_suffix THEN at(da_walk(T.da, st.index, TRIE_CHAR_TERM))
        ELSE IF tail_is_walkable_char(T.tail, st.index, st.suffix_idx, TRIE_CHAR_TERM)
        THEN tail_get_data(T.tail, st.index)
        ELSE NoData

\* DArray::is_walkable
da_is_walkable(d, s, c) == da_walk(d, s, c) # NoIndex

\* TrieState::rewind; suffix_idx is left as it is
state_rewind(T, st) == [st EXCEPT !.index = get_root, !.is_suffix = FALSE]

\* TrieState::is_walkable that looks at the start of the suffix, wherever the
\* state is in it
state_is_walkable_at_suffix_start(T, st, ch) ==
    LET mapped(tc) ==
            IF tc = TRIE_INDEX_MAX THEN FALSE
            ELSE IF ~st.is_suffix THEN da_is_walkable(T.da, st.index, AsTrieChar(tc))
            ELSE tail_is_walkable_char(T.tail, st.index, 0, AsTrieChar(tc))
    IN  mapped(alpha_map_char_to_trie(T.alpha_map, ch))

\* TrieState::is_walkable
state_is_walkable(T, st, ch) ==
    LET mapped(tc) ==
            IF tc = TRIE_INDEX_MAX THEN FALSE
            ELSE IF ~st.is_suffix THEN da_is_walkable(T.da, st.index, AsTrieChar(tc))
            ELSE tail_is_walkable_char(T.tail, st.index, st.suffix_idx, AsTrieChar(tc))
    IN  mapped(alpha_map_char_to_trie(T.alpha_map, ch))

\* TrieState::walkable_chars; the result is [panics, chars]: in a suffix the
\* call unwraps get_suffix and indexes the suffix with suffix_idx as usize
state_walkable_chars(T, st) ==
    LET at(suffix) ==
            IF suffix = << >> \/ st.suffix_idx < 0 \/ st.suffix_idx >= Len(suffix)
            THEN [panics |-> TRUE, chars |-> << >>]
            ELSE [panics |-> FALSE,
                  chars |-> << alpha_map_trie_to_char(T.alpha_map,
                                                      suffix[st.suffix_idx + 1]) >>]
    IN  IF ~st.is_suffix
        THEN [panics |-> FALSE,
              chars |-> map_to_alpha_char(T.alpha_map, output_symbols(T.da, st.index))]
        ELSE at(tail_get_suffix(T.tail, st.index))

\* TrieState::is_terminal
state_is_terminal(T, st) == state_is_walkable(T, st, 0)

\* the items next() yields until it returns None, each with the key buffer the
\* iterator held for it
RECURSIVE IterRest(_, _)
IterRest(T, it) ==
    LET stepped(n) ==
            IF ~n.ret THEN << >>
            ELSE << [key |-> iter_key(T, n.it), data |-> iter_data(T, n.it),
                     buf |-> n.it.key] >>
                 \o IterRest(T, n.it)
    IN  stepped(iter_next(T, it))

IterAll(T) == IterRest(T, trie_iter(T))

(***************************************************************************)
(* The same searches over cells that need not form a tree, as a loaded     *)
(* DArray has them.  The loops of the code are deterministic in the cell   *)
(* they are at, so a loop that comes to a cell again never ends: the       *)
(* result then has loops = TRUE.                                           *)
(***************************************************************************)
\* da_first_separate; seen are the cells the loop has been at
RECURSIVE da_first_separate_seen(_, _, _, _)
da_first_separate_seen(d, root, keybuff, seen) ==
    LET down(base, syms) ==
            IF syms = << >>
            THEN [sep |-> TRIE_INDEX_ERROR, key |-> keybuff, loops |-> FALSE]
            ELSE da_first_separate_seen(d, base + syms[1], Append(keybuff, syms[1]),
                                        seen \cup {root})
        from(base) ==
            IF base < 0 THEN [sep |-> root, key |-> keybuff, loops |-> FALSE]
            ELSE down(base, ChildSymbols(d, root, base))
    IN  IF root \in seen THEN [sep |-> TRIE_INDEX_ERROR, key |-> keybuff, loops |-> TRUE]
        ELSE from(get_base(d, root))

\* da_next_separate; seen are the cells the climb has been at
RECURSIVE da_next_separate_seen(_, _, _, _, _)
da_next_separate_seen(d, root, sep, keybuff, seen) ==
    IF sep = root THEN [sep |-> TRIE_INDEX_ERROR, key |-> keybuff, loops |-> FALSE]
    ELSE IF sep \in seen THEN [sep |-> TRIE_INDEX_ERROR, key |-> keybuff, loops |-> TRUE]
    ELSE LET sibling(parent, base, later) ==
                 IF later # << >>
                 THEN da_first_separate_seen(d, base + later[1],
                                             Append(cut_last(keybuff), later[1]), {})
                 ELSE da_next_separate_seen(d, root, parent, cut_last(keybuff),
                                            seen \cup {sep})
             under(parent, base) ==
                 sibling(parent, base,
                         SelectSeq(ChildSymbols(d, parent, base), LAMBDA x : x > sep - base))
             up(parent) == under(parent, get_base(d, parent))
         IN  up(get_check(d, sep))

\* iter() and next() until None, as the fuzz target of loading runs it: "done"
\* when next() returns None, "panic" when key() is None for an item (the tail
\* entry of the separate cell does not exist) and next() unwraps it, "diverges"
\* when a search loops or the iterator comes to an item again.  sep is the
\* cell of the last item, TRIE_INDEX_ERROR before the first one.
RECURSIVE iterate(_, _, _, _)
iterate(T, sep, keybuff, yielded) ==
    LET item(n) ==
            IF n.loops THEN "diverges"
            ELSE IF n.sep = TRIE_INDEX_ERROR THEN "done"
            ELSE IF ~TailAllocated(T.tail, get_tail_index(T.da, n.sep)) THEN "panic"
            ELSE IF n.sep \in yielded THEN "diverges"
            ELSE iterate(T, n.sep, n.key, yielded \cup {n.sep})
    IN  IF sep = TRIE_INDEX_ERROR
        THEN item(da_first_separate_seen(T.da, get_root, keybuff, {}))
        ELSE item(da_next_separate_seen(T.da, get_root, sep, keybuff, {}))

(***************************************************************************)
(* Serialization: a stream is a sequence of bytes, integers big-endian.    *)
(* A read gives [ok, v, pos]: the value and the position after it.         *)
(***************************************************************************)
\* write_i32::<BigEndian>
BE32(x) == << (x \div 16777216) % 256, (x \div 65536) % 256, (x \div 256) % 256, x % 256 >>

\* write_i16::<BigEndian>
BE16(x) == << (x \div 256) % 256, x % 256 >>

\* read_i32::<BigEndian> at pos (1-based); not ok when the stream is too short
read_i32(bytes, pos) ==
    IF pos + 3 > Len(bytes) THEN [ok |-> FALSE, v |-> 0, pos |-> pos]
    ELSE LET hi == IF bytes[pos] >= 128 THEN bytes[pos] - 256 ELSE bytes[pos]
         IN  [ok |-> TRUE,
              v |-> hi * 16777216 + bytes[pos + 1] * 65536 + bytes[pos + 2] * 256 + bytes[pos + 3],
              pos |-> pos + 4]

read_i16(bytes, pos) ==
    IF pos + 1 > Len(bytes) THEN [ok |-> FALSE, v |-> 0, pos |-> pos]
    ELSE LET hi == IF bytes[pos] >= 128 THEN bytes[pos] - 256 ELSE bytes[pos]
         IN  [ok |-> TRUE, v |-> hi * 256 + bytes[pos + 1], pos |-> pos + 2]

RECURSIVE Flatten(_)
Flatten(ss) == IF ss = << >> THEN << >> ELSE Head(ss) \o Flatten(Tail(ss))

alpha_map_serialize(am) ==
    BE32(ALPHAMAP_SIGNATURE) \o BE32(Len(am.ranges))
    \o Flatten([i \in 1..Len(am.ranges) |-> BE32(am.ranges[i].begin) \o BE32(am.ranges[i].end)])

\* _read, the loop over the stored ranges; the result is [ok, ranges, pos,
\* overflow].  What alpha_map_add_range_only returns is not looked at; overflow
\* tells that one of its calls computed end + 1 for end = u32::MAX.
RECURSIVE alpha_map_read_ranges(_, _, _, _, _)
alpha_map_read_ranges(bytes, pos, left, ranges, overflow) ==
    LET added(e, a) ==
            alpha_map_read_ranges(bytes, e.pos, left - 1, a.ranges, overflow \/ a.overflow)
        range(b, e) ==
            IF ~b.ok \/ ~e.ok
            THEN [ok |-> FALSE, ranges |-> ranges, pos |-> pos, overflow |-> overflow]
            ELSE added(e, alpha_map_add_range_only(ranges, b.v, e.v))
        begin(b) == range(b, read_i32(bytes, b.pos))
    IN  IF left <= 0
        THEN [ok |-> TRUE, ranges |-> ranges, pos |-> pos, overflow |-> overflow]
        ELSE begin(read_i32(bytes, pos))

\* the result is [ok, err, am, pos, overflow, defined]; err is the kind of the
\* io::Error; overflow and defined are those of alpha_map_add_range_only and
\* alpha_map_recalc_work_area
alpha_map_read(bytes, pos) ==
    LET failed(err, overflow) ==
            [ok |-> FALSE, err |-> err, am |-> AlphaMapDefault, pos |-> pos,
             overflow |-> overflow, defined |-> TRUE]
        bad(err) == failed(err, FALSE)
        recalculated(r, w) ==
            IF w.res # 0 THEN failed("OutOfMemory", r.overflow)
            ELSE [ok |-> TRUE, err |-> "", am |-> w.am, pos |-> r.pos,
                  overflow |-> r.overflow, defined |-> w.defined]
        ranges(r) ==
            IF ~r.ok THEN failed("UnexpectedEof", r.overflow)
            ELSE recalculated(r, alpha_map_recalc_work_area(r.ranges))
        header(sig, total) ==
            IF ~sig.ok THEN bad("UnexpectedEof")
            ELSE IF sig.v # ALPHAMAP_SIGNATURE THEN bad("InvalidData")
            ELSE IF ~total.ok THEN bad("UnexpectedEof")
            ELSE ranges(alpha_map_read_ranges(bytes, total.pos, total.v, << >>, FALSE))
        signature(sig) == header(sig, read_i32(bytes, sig.pos))
    IN  signature(read_i32(bytes, pos))

da_serialize(d) ==
    Flatten([i \in 1..Len(d) |-> BE32(d[i].base) \o BE32(d[i].check)])

\* DArray::read, the loop over the cells 1..num_cells; the result is [ok, cells, pos]
RECURSIVE da_read_cells(_, _, _, _)
da_read_cells(bytes, pos, left, cells) ==
    LET cell(b, c) ==
            IF ~b.ok \/ ~c.ok THEN [ok |-> FALSE, cells |-> cells, pos |-> pos]
            ELSE da_read_cells(bytes, c.pos, left - 1,
                               Append(cells, [base |-> b.v, check |-> c.v]))
        base(b) == cell(b, read_i32(bytes, b.pos))
    IN  IF left <= 0 THEN [ok |-> TRUE, cells |-> cells, pos |-> pos]
        ELSE base(read_i32(bytes, pos))

\* DArray::read that does not keep the number of cells in cell 0
da_read_no_count(bytes, pos) ==
    LET bad(err) == [ok |-> FALSE, err |-> err, da |-> << >>, pos |-> pos]
        cells(r) ==
            IF ~r.ok THEN bad("UnexpectedEof")
            ELSE [ok |-> TRUE, err |-> "", da |-> r.cells, pos |-> r.pos]
        header(sig, num_cells) ==
            IF ~sig.ok THEN bad("UnexpectedEof")
            ELSE IF sig.v # DA_SIGNATURE THEN bad("InvalidData")
            ELSE IF ~num_cells.ok THEN bad("UnexpectedEof")
            \* Vec::with_capacity(num_cells as usize) of a negative count:
            \* capacity overflow
            ELSE IF num_cells.v < 0 THEN bad("panic")
            ELSE cells(da_read_cells(bytes, num_cells.pos, num_cells.v - 1,
                                     << [base |-> DA_SIGNATURE, check |-> 0] >>))
        signature(sig) == header(sig, read_i32(bytes, sig.pos))
    IN  signature(read_i32(bytes, pos))

\* DArray::read that takes any four bytes for the signature
da_read_any_signature(bytes, pos) ==
    LET bad(err) == [ok |-> FALSE, err |-> err, da |-> << >>, pos |-> pos]
        cells(r) ==
            IF ~r.ok THEN bad("UnexpectedEof")
            ELSE [ok |-> TRUE, err |-> "", da |-> r.cells, pos |-> r.pos]
        header(sig, num_cells) ==
            IF ~sig.ok \/ ~num_cells.ok THEN bad("UnexpectedEof")
            ELSE IF num_cells.v < 0 THEN bad("panic")
            ELSE cells(da_read_cells(bytes, num_cells.pos, num_cells.v - 1,
                                     << [base |-> DA_SIGNATURE, check |-> num_cells.v] >>))
        signature(sig) == header(sig, read_i32(bytes, sig.pos))
    IN  signature(read_i32(bytes, pos))

\* the result is [ok, err, da, pos]; err is the kind of the io::Error, or "panic"
da_read(bytes, pos) ==
    LET bad(err) == [ok |-> FALSE, err |-> err, da |-> << >>, pos |-> pos]
        cells(r) ==
            IF ~r.ok THEN bad("UnexpectedEof")
            ELSE [ok |-> TRUE, err |-> "", da |-> r.cells, pos |-> r.pos]
        header(sig, num_cells) ==
            IF ~sig.ok THEN bad("UnexpectedEof")
            ELSE IF sig.v # DA_SIGNATURE THEN bad("InvalidData")
            ELSE IF ~num_cells.ok THEN bad("UnexpectedEof")
            \* Vec::with_capacity(num_cells as usize) of a negative count:
            \* capacity overflow
            ELSE IF num_cells.v < 0 THEN bad("panic")
            ELSE cells(da_read_cells(bytes, num_cells.pos, num_cells.v - 1,
                                     << [base |-> DA_SIGNATURE, check |-> num_cells.v] >>))
        signature(sig) == header(sig, read_i32(bytes, sig.pos))
    IN  signature(read_i32(bytes, pos))

tail_serialize(tl) ==
    BE32(TAIL_SIGNATURE) \o BE32(Len(tl.tails)) \o BE32(tl.first_free)
    \o Flatten([t \in 1..Len(tl.tails) |->
                  BE32(tl.tails[t].next_free) \o BE16(Len(tl.tails[t].suffix))
                  \o tl.tails[t].suffix \o BE32(tl.tails[t].data)])

\* Tail::read, the loop over the entries; the result is [ok, tails, pos]
RECURSIVE tail_read_entries(_, _, _, _)
tail_read_entries(bytes, pos, left, tails) ==
    LET entry(nf, n, data) ==
            IF ~nf.ok \/ ~n.ok \/ n.v < 0 \/ n.pos + n.v - 1 > Len(bytes) \/ ~data.ok
            THEN [ok |-> FALSE, tails |-> tails, pos |-> pos]
            ELSE tail_read_entries(bytes, data.pos, left - 1,
                    Append(tails, [next_free |-> nf.v,
                                   suffix |-> SubSeq(bytes, n.pos, n.pos + n.v - 1),
                                   data |-> data.v]))
        length(nf, n) == entry(nf, n, read_i32(bytes, n.pos + n.v))
        next_free(nf) == length(nf, read_i16(bytes, nf.pos))
    IN  IF left <= 0 THEN [ok |-> TRUE, tails |-> tails, pos |-> pos]
        ELSE next_free(read_i32(bytes, pos))

\* the result is [ok, err, tail, pos]
tail_read(bytes, pos) ==
    LET bad(err) == [ok |-> FALSE, err |-> err, tail |-> TailDefault, pos |-> pos]
        entries(first_free, r) ==
            IF ~r.ok THEN bad("UnexpectedEof")
            ELSE [ok |-> TRUE, err |-> "",
                  tail |-> [first_free |-> first_free.v, tails |-> r.tails],
                  pos |-> r.pos]
        header(sig, num_tails, first_free) ==
            IF ~sig.ok THEN bad("UnexpectedEof")
            ELSE IF sig.v # TAIL_SIGNATURE THEN bad("InvalidData")
            ELSE IF ~num_tails.ok \/ ~first_free.ok THEN bad("UnexpectedEof")
            ELSE entries(first_free,
                         tail_read_entries(bytes, first_free.pos, num_tails.v, << >>))
        count(sig, num_tails) == header(sig, num_tails, read_i32(bytes, num_tails.pos))
        signature(sig) == count(sig, read_i32(bytes, sig.pos))
    IN  signature(read_i32(bytes, pos))

\* ROTrie::serialize: the three sections, no framing
trie_serialize(T) ==
    alpha_map_serialize(T.alpha_map) \o da_serialize(T.da) \o tail_serialize(T.tail)

\* Trie::from_reader; the result is [ok, err, trie, pos]: the first section
\* that fails ends the call with its error
trie_from_reader(bytes) ==
    LET bad(err) == [ok |-> FALSE, err |-> err, trie |-> TrieNew(AlphaMapDefault), pos |-> 1]
        sections(a, d, t) ==
            IF ~a.ok THEN bad(a.err)
            ELSE IF ~d.ok THEN bad(d.err)
            ELSE IF ~t.ok THEN bad(t.err)
            ELSE [ok |-> TRUE, err |-> "",
                  trie |-> [alpha_map |-> a.am, da |-> d.da, tail |-> t.tail,
                            is_dirty |-> FALSE],
                  pos |-> t.pos]
        darray(a, d) == sections(a, d, tail_read(bytes, d.pos))
        alpha(a) == darray(a, da_read(bytes, a.pos))
    IN  alpha(alpha_map_read(bytes, 1))

\* alpha_map_get_serialized_size: signature, count, two characters a range
alpha_map_get_serialized_size(am) == 4 + 4 + 4 * 2 * Len(am.ranges)

\* DArray::get_serialized_size that counts one field a cell
da_get_serialized_size_base_only(d) == IF Len(d) # 0 THEN 4 * Len(d) ELSE 0

\* DArray::get_serialized_size
da_get_serialized_size(d) == IF Len(d) # 0 THEN 4 * Len(d) * 2 ELSE 0

\* Tail::serialized_size: signature, count, first_free, and for each entry
\* next_free, the length, the suffix and the payload
RECURSIVE tail_entries_size(_, _)
tail_entries_size(tl, t) ==
    IF t > Len(tl.tails) THEN 0
    ELSE 4 + 2 + Len(tl.tails[t].suffix) + 4 + tail_entries_size(tl, t + 1)

tail_serialized_size(tl) == 4 + 4 + 4 + tail_entries_size(tl, 1)

\* ROTrie::serialized_size
serialized_size(T) ==
    alpha_map_get_serialized_size(T.alpha_map) + da_get_serialized_size(T.da)
    + tail_serialized_size(T.tail)

\* Trie::is_dirty
is_dirty(T) == T.is_dirty

\* Trie::into_ro: the read-only trie inside
into_ro(T) == [alpha_map |-> T.alpha_map, da |-> T.da, tail |-> T.tail]

\* Trie::from_ro
from_ro(ro) ==
    [alpha_map |-> ro.alpha_map, da |-> ro.da, tail |-> ro.tail, is_dirty |-> TRUE]

\* Trie::serialize that leaves the trie dirty
serialize_stays_dirty(T) == [bytes |-> trie_serialize(T), trie |-> T]

\* Trie::serialize; the result is [bytes, trie]
serialize(T) == [bytes |-> trie_serialize(T), trie |-> [T EXCEPT !.is_dirty = FALSE]]

(***************************************************************************)
(* The inputs of the model                                                 *)
(***************************************************************************)
\* the alphabet is the two ranges 5..=5 and 7..=7: 6 lies between alpha_begin and
\* alpha_end in no range, 9 lies beyond alpha_end
AlphaChars == {5, 7}

\* the largest character add_range is given, short of AlphaChar::MAX; a range
\* up to it has more than 254 characters
MaxChar == 300

\* the number of calls of add_range on one map
MaxRanges == 2

BadChars == {6, 9}

Data == {1, 2}

\* the i-th word over the alphabet, shortest first and then in alphabet order:
\* << >>, 5, 7, 55, 57, 75, 77, 555, ...
RECURSIVE WordAt(_)
WordAt(i) ==
    IF i = 0 THEN << >>
    ELSE Append(WordAt((i - 1) \div 2), IF (i - 1) % 2 = 0 THEN 5 ELSE 7)

Words == {WordAt(i) : i \in 0..(NumKeys - 1)}

\* nul-terminated keys over the alphabet
Keys == {Append(w, 0) : w \in Words}

\* nul-terminated keys with one character that is not in the alphabet: after a
\* word of the alphabet, or before a character of it
BadKeys ==
    {Append(Append(w, x), 0) : w \in Words, x \in BadChars}
    \cup {<< x, c, 0 >> : x \in BadChars, c \in AlphaChars}

(***************************************************************************)
(* The state machine: one trie, driven by store, store_if_absent and       *)
(* delete.  last is the call that produced the state and its result;       *)
(* expect records, per key, the data of the last store that returned true  *)
(* and was not followed by a delete that returned true.                    *)
(***************************************************************************)
\* trie is the program's Trie.  The other variables are history: expect is the
\* map the calls so far describe, nops counts the calls, last is the latest
\* call (what it was asked, what it returned, which path it took).
VARIABLES trie, last, expect, nops

\* stream is a byte string a reader is given and what became of it; alpha is an
\* AlphaMap under construction, before a trie is made of it.  Neither takes part
\* in the calls of a trie.
VARIABLES stream, alpha

\* readers are the lookups and iterations under way over the trie, each with
\* the TrieState or TrieIterator it holds
VARIABLES readers

vars == << trie, last, expect, nops, stream, alpha, readers, index_max >>

\* the readers, two of them so that they can interleave
Readers == {1, 2}

Idle == [r \in Readers |-> [phase |-> "idle"]]

\* the cells of the pool that a parent owns
OwnedCells(d) == {s \in DA_POOL_BEGIN..(Len(d) - 1) : get_check(d, s) > 0}

\* some cell that was owned before the call has another parent or none after it
CellsMoved(before, after) ==
    \E s \in OwnedCells(before) : get_check(after, s) # get_check(before, s)

\* the path store_conditionally takes for key: "unknown", "branch" (an edge is
\* missing: branch_in_branch), "split" (the tail differs: branch_in_tail) or
\* "match" (the key is there)
StorePath(T, key) ==
    LET tail_walked(w) == IF w = "mismatch" THEN "split" ELSE w
        branches_walked(b) ==
            IF b.how = "unknown" THEN "unknown"
            ELSE IF b.how = "missing" THEN "branch"
            ELSE tail_walked(walk_tail(T, get_tail_index(T.da, b.s), b.p, 1, 0))
    IN  branches_walked(walk_branches(T, get_root, key))

Init ==
    /\ index_max = TRIE_INDEX_MAX
    /\ trie = TrieNew(alpha_map_add_range(
                        alpha_map_add_range(AlphaMapDefault, 5, 5).am, 7, 7).am)
    /\ last = [kind |-> "new", key |-> << >>, data |-> NoData, ret |-> TRUE,
               path |-> "new", moved |-> FALSE]
    /\ expect = [k \in Keys |-> NoData]
    /\ nops = 0
    /\ stream = [bytes |-> << >>, result |-> "none"]
    /\ alpha = AlphaMapDefault
    /\ readers = Idle

\* a call that gave r and makes the map of the calls e
Called(r, e) ==
    /\ nops < MaxOps
    /\ trie' = r.trie
    /\ expect' = e
    /\ nops' = nops + 1
    /\ UNCHANGED << stream, alpha, readers, index_max >>

\* the call is written down
Recorded(kind, k, v, r) ==
    last' = [kind |-> kind, key |-> k, data |-> v, ret |-> r.ret,
             path |-> StorePath(trie, k), moved |-> CellsMoved(trie.da, r.trie.da)]

\* a call that is written down
CalledAndRecorded(kind, k, v, r, e) == Called(r, e) /\ Recorded(kind, k, v, r)

Stored(k, v) == [expect EXCEPT ![k] = v]

StoredIfAbsent(k, v) == IF expect[k] = NoData THEN [expect EXCEPT ![k] = v] ELSE expect

Deleted(k) == [expect EXCEPT ![k] = NoData]

Store(k, v) == Called(store(trie, k, v), Stored(k, v)) /\ UNCHANGED last

StoreIfAbsent(k, v) ==
    Called(store_if_absent(trie, k, v), StoredIfAbsent(k, v)) /\ UNCHANGED last

Delete(k) == Called(delete(trie, k), Deleted(k)) /\ UNCHANGED last

Next ==
    \/ \E k \in Keys, v \in Data : Store(k, v)
    \/ \E k \in Keys, v \in Data : StoreIfAbsent(k, v)
    \/ \E k \in Keys : Delete(k)

\* the tries that calls of store, store_if_absent and delete make
Spec == Init /\ [][Next]_vars

StoreCall(k, v) ==
    CalledAndRecorded("store", k, v, store(trie, k, v), Stored(k, v))

StoreIfAbsentCall(k, v) ==
    CalledAndRecorded("store_if_absent", k, v, store_if_absent(trie, k, v),
                      StoredIfAbsent(k, v))

DeleteCall(k) == CalledAndRecorded("delete", k, NoData, delete(trie, k), Deleted(k))

NextCall ==
    \/ \E k \in Keys, v \in Data : StoreCall(k, v)
    \/ \E k \in Keys, v \in Data : StoreIfAbsentCall(k, v)
    \/ \E k \in Keys : DeleteCall(k)

\* the same tries, each with the call that made it
SpecCalls == Init /\ [][NextCall]_vars

\* a call without a key, written down
Noted(kind, ret, T) ==
    /\ nops < MaxOps
    /\ trie' = T
    /\ last' = [kind |-> kind, key |-> << >>, data |-> NoData, ret |-> ret,
                path |-> "none", moved |-> FALSE]
    /\ nops' = nops + 1
    /\ UNCHANGED << expect, stream, alpha, readers, index_max >>

SerializeCall == Noted("serialize", TRUE, serialize(trie).trie)

\* from_reader of what serialize wrote
FromReaderCall ==
    LET read(r) == r.ok /\ Noted("from_reader", TRUE, r.trie)
    IN  read(trie_from_reader(serialize(trie).bytes))

FromRoCall == Noted("from_ro", TRUE, from_ro(into_ro(trie)))

\* retrieve takes &self
RetrieveCall(k) ==
    /\ nops < MaxOps
    /\ last' = [kind |-> "retrieve", key |-> k, data |-> retrieve(trie, k),
                ret |-> retrieve(trie, k) # NoData, path |-> "none", moved |-> FALSE]
    /\ nops' = nops + 1
    /\ UNCHANGED << trie, expect, stream, alpha, readers, index_max >>

\* iter and next until None take &self
IterCall ==
    /\ nops < MaxOps
    /\ last' = [kind |-> "iter", key |-> << >>, data |-> Len(IterAll(trie)),
                ret |-> TRUE, path |-> "none", moved |-> FALSE]
    /\ nops' = nops + 1
    /\ UNCHANGED << trie, expect, stream, alpha, readers, index_max >>

NextFile ==
    \/ NextCall
    \/ SerializeCall
    \/ FromReaderCall
    \/ FromRoCall
    \/ \E k \in Keys : RetrieveCall(k)
    \/ IterCall

\* the calls of a trie that is also saved, loaded and read
SpecFile == Init /\ [][NextFile]_vars

(***************************************************************************)
(* Readers of one trie that nothing stores into meanwhile: each reader     *)
(* looks a key up through a TrieState of its own, one walk at a time, or   *)
(* iterates with a TrieIterator of its own, one next() at a time, and the  *)
(* steps of the readers interleave.                                        *)
(***************************************************************************)
\* the trie after the keys ks were stored, the i-th with the data i
RECURSIVE StoreAll(_, _, _)
StoreAll(T, ks, i) ==
    IF i > Len(ks) THEN T ELSE StoreAll(store(T, ks[i], i).trie, ks, i + 1)

InitReaders ==
    /\ index_max = TRIE_INDEX_MAX
    /\ trie \in {StoreAll(TrieNew(alpha_map_add_range(
                            alpha_map_add_range(AlphaMapDefault, 5, 5).am, 7, 7).am), ks, 1) :
                   ks \in {<< >>} \cup {<< k >> : k \in Keys}
                          \cup {<< k, k2 >> : k \in Keys, k2 \in Keys}}
    /\ last = [kind |-> "new", key |-> << >>, data |-> NoData, ret |-> TRUE,
               path |-> "new", moved |-> FALSE]
    /\ expect = [k \in Keys |-> NoData]
    /\ nops = 0
    /\ stream = [bytes |-> << >>, result |-> "none"]
    /\ alpha = AlphaMapDefault
    /\ readers = Idle

\* a step of reader r that leaves it as next; the readers hold &ROTrie
Reads(r, next) ==
    /\ readers' = [readers EXCEPT ![r] = next]
    /\ UNCHANGED << trie, last, expect, nops, stream, alpha, index_max >>

\* trie.root(), for a lookup of key
LookupStart(r, key) ==
    /\ readers[r].phase = "idle"
    /\ Reads(r, [phase |-> "walking", key |-> key, pos |-> 0, state |-> trie_root(trie)])

\* state.walk(c) of the next character before the 0 of the key; the lookup
\* ends without data when the walk fails
LookupWalk(r) ==
    LET walked(w) ==
            IF w.ret THEN [readers[r] EXCEPT !.pos = @ + 1, !.state = w.state]
            ELSE [phase |-> "looked up", key |-> readers[r].key, data |-> NoData]
    IN  /\ readers[r].phase = "walking"
        /\ readers[r].pos < Len(readers[r].key) - 1
        /\ Reads(r, walked(state_walk(trie, readers[r].state,
                                      readers[r].key[readers[r].pos + 1])))

\* state.get_data() after the last character
LookupGetData(r) ==
    /\ readers[r].phase = "walking"
    /\ readers[r].pos = Len(readers[r].key) - 1
    /\ Reads(r, [phase |-> "looked up", key |-> readers[r].key,
                 data |-> state_get_data(trie, readers[r].state)])

\* trie.iter()
IterStart(r) ==
    /\ readers[r].phase = "idle"
    /\ Reads(r, [phase |-> "iterating", it |-> trie_iter(trie), items |-> << >>])

\* next(), with key() and data() of the item
IterNext(r) ==
    LET stepped(n) ==
            IF ~n.ret THEN [phase |-> "iterated", items |-> readers[r].items]
            ELSE [readers[r] EXCEPT
                    !.it = n.it,
                    !.items = Append(@, [key |-> iter_key(trie, n.it),
                                         data |-> iter_data(trie, n.it)])]
    IN  /\ readers[r].phase = "iterating"
        /\ Reads(r, stepped(iter_next(trie, readers[r].it)))

NextReaders ==
    \E r \in Readers :
        \/ \E k \in Keys : LookupStart(r, k)
        \/ LookupWalk(r)
        \/ LookupGetData(r)
        \/ IterStart(r)
        \/ IterNext(r)

SpecReaders == InitReaders /\ [][NextReaders]_vars

(***************************************************************************)
(* Loading a byte string that no serialize wrote, and iterating over what  *)
(* was loaded: what the fuzz target of loading does with its input.        *)
(***************************************************************************)
\* what a stored cell's base and check are drawn from
CellValues == {-2, -1, 0, 2, 3}

LoadedCells == [base : CellValues, check : CellValues]

\* the DArray sections: a stored count of cells and the cells behind it
DArraySections ==
    LET section(n, cells) == BE32(DA_SIGNATURE) \o BE32(n) \o da_serialize(cells)
    IN  {section(n, << >>) : n \in {-1, 0, 1}}
        \cup {section(3, << DArrayDefault[2], c >>) : c \in LoadedCells}
        \cup {section(4, << DArrayDefault[2], c, e >>) : c \in LoadedCells, e \in LoadedCells}

\* an AlphaMap section of the alphabet, a DArray section, and a Tail section
\* with the one entry 1; and such a stream cut short
Streams ==
    LET one_entry == [first_free |-> 0,
                      tails |-> << [next_free |-> -1, suffix |-> << TRIE_CHAR_TERM >>,
                                    data |-> 1] >>]
        whole == {alpha_map_serialize(TrieNew(alpha_map_add_range(
                        alpha_map_add_range(AlphaMapDefault, 5, 5).am, 7, 7).am).alpha_map)
                  \o d \o tail_serialize(one_entry) : d \in DArraySections}
    IN  whole \cup {SubSeq(b, 1, Len(b) - 1) : b \in {w \in whole : Len(w) < 60}}

InitLoad ==
    /\ index_max = TRIE_INDEX_MAX
    /\ trie = TrieNew(AlphaMapDefault)
    /\ last = [kind |-> "new", key |-> << >>, data |-> NoData, ret |-> TRUE,
               path |-> "new", moved |-> FALSE]
    /\ expect = [k \in Keys |-> NoData]
    /\ nops = 0
    /\ stream \in [bytes : Streams, result : {"unread"}]
    /\ alpha = AlphaMapDefault
    /\ readers = Idle

\* Trie::from_reader of the stream: "loaded", or the error, or "panic"
FromReaderStream ==
    LET read(r) ==
            /\ stream' = [stream EXCEPT !.result = IF r.ok THEN "loaded" ELSE r.err]
            /\ trie' = IF r.ok THEN r.trie ELSE trie
    IN  /\ stream.result = "unread"
        /\ read(trie_from_reader(stream.bytes))
        /\ UNCHANGED << last, expect, nops, alpha, readers, index_max >>

\* for item in trie.iter()
IterateLoaded ==
    /\ stream.result = "loaded"
    /\ stream' = [stream EXCEPT !.result = iterate(trie, TRIE_INDEX_ERROR, << >>, {})]
    /\ UNCHANGED << trie, last, expect, nops, alpha, readers, index_max >>

NextLoad == FromReaderStream \/ IterateLoaded

SpecLoad == InitLoad /\ [][NextLoad]_vars

(***************************************************************************)
(* An AlphaMap under construction: calls of add_range on the default map.  *)
(* Here expect records the characters of the ranges whose call returned 0,  *)
(* and whether a call failed after it had changed the map.                 *)
(***************************************************************************)
\* what begin and end are drawn from: characters that make small ranges, one
\* that makes a range of more than 254, and AlphaChar::MAX
RangeEnds == {1, 5, 7, MaxChar, ALPHA_CHAR_ERROR}

\* the characters of begin..=end, none of them above MaxChar
CharsOf(begin, end) == {ch \in 1..MaxChar : ULe(begin, ch) /\ ULe(ch, end)}

InitAlpha ==
    /\ index_max = TRIE_INDEX_MAX
    /\ trie = TrieNew(AlphaMapDefault)
    /\ last = [kind |-> "new", key |-> << >>, data |-> NoData, ret |-> TRUE,
               path |-> "new", moved |-> FALSE]
    /\ expect = [chars |-> {}, failed |-> FALSE]
    /\ nops = 0
    /\ stream = [bytes |-> << >>, result |-> "none"]
    /\ alpha = AlphaMapDefault
    /\ readers = Idle

\* a call of add_range that ends as how: "returned", "panic" or "undefined"
AddRangeEnds(b, e, how, ret, am, e1) ==
    /\ nops < MaxRanges
    /\ last.path \in {"new", "returned"}
    /\ alpha' = am
    /\ last' = [kind |-> "add_range", key |-> << b, e >>, data |-> NoData, ret |-> ret,
                path |-> how, moved |-> FALSE]
    /\ expect' = e1
    /\ nops' = nops + 1
    /\ UNCHANGED << trie, stream, readers, index_max >>

\* add_range that returns
AddRange(b, e) ==
    LET returned(a) ==
            /\ a.defined
            /\ AddRangeEnds(b, e, "returned", a.res = 0, a.am,
                            IF a.res = 0
                            THEN [expect EXCEPT !.chars = @ \cup CharsOf(b, e)]
                            ELSE IF a.am # alpha THEN [expect EXCEPT !.failed = TRUE]
                            ELSE expect)
    IN  returned(alpha_map_add_range(alpha, b, e))

\* add_range in a build with overflow checks, where end + 1 overflows: the call
\* panics, and nothing is called after it
AddRangePanics(b, e) ==
    /\ alpha_map_add_range(alpha, b, e).overflow
    /\ AddRangeEnds(b, e, "panic", FALSE, alpha, [expect EXCEPT !.failed = TRUE])

\* add_range that writes outside its tables: what it returns and leaves is not
\* defined, and nothing that is called after it is
AddRangeUndefined(b, e) ==
    /\ ~alpha_map_add_range(alpha, b, e).defined
    /\ AddRangeEnds(b, e, "undefined", FALSE, alpha, [expect EXCEPT !.failed = TRUE])

NextAlpha ==
    \/ \E b \in RangeEnds, e \in RangeEnds : AddRange(b, e)
    \/ \E b \in RangeEnds, e \in RangeEnds : AddRangePanics(b, e)
    \/ \E b \in RangeEnds, e \in RangeEnds : AddRangeUndefined(b, e)

SpecAlpha == InitAlpha /\ [][NextAlpha]_vars

(***************************************************************************)
(* Reading an AlphaMap section that no serialize wrote.                    *)
(***************************************************************************)
\* the sections with one or two stored ranges
AlphaSections ==
    LET stored(b, e) == BE32(b) \o BE32(e)
        section(n, ranges) == BE32(ALPHAMAP_SIGNATURE) \o BE32(n) \o ranges
    IN  {section(1, stored(b, e)) : b \in RangeEnds, e \in RangeEnds}
        \cup {section(2, stored(b, e) \o stored(b2, e2)) :
                 b \in RangeEnds, e \in RangeEnds, b2 \in RangeEnds, e2 \in RangeEnds}

InitAlphaRead ==
    /\ index_max = TRIE_INDEX_MAX
    /\ trie = TrieNew(AlphaMapDefault)
    /\ last = [kind |-> "new", key |-> << >>, data |-> NoData, ret |-> TRUE,
               path |-> "new", moved |-> FALSE]
    /\ expect = [k \in Keys |-> NoData]
    /\ nops = 0
    /\ stream \in [bytes : AlphaSections, result : {"unread"}]
    /\ alpha = AlphaMapDefault
    /\ readers = Idle

\* AlphaMap::read of the stream, which ends as how: it returns ("read" or the
\* error), or panics in a build with overflow checks where end + 1 overflows,
\* or writes outside its tables
ReadAlpha(how) ==
    LET read(r) ==
            /\ how = "returned" => r.defined
            /\ how = "panic" => r.overflow
            /\ how = "undefined" => ~r.defined
            /\ stream' = [stream EXCEPT
                            !.result = IF how # "returned" THEN how
                                       ELSE IF r.ok THEN "read" ELSE r.err]
            /\ alpha' = IF how = "returned" /\ r.ok THEN r.am ELSE alpha
    IN  /\ stream.result = "unread"
        /\ read(alpha_map_read(stream.bytes, 1))
        /\ UNCHANGED << trie, last, expect, nops, readers, index_max >>

NextAlphaRead == \E how \in {"returned", "panic", "undefined"} : ReadAlpha(how)

SpecAlphaRead == InitAlphaRead /\ [][NextAlphaRead]_vars

(***************************************************************************)
(* The properties                                                          *)
(***************************************************************************)
\* the keys that retrieve finds
Present(T) == {k \in Keys : retrieve(T, k) # NoData}

\* the tail index of the separate cell the walk for key ends in
TailIndexOf(T, key) == get_tail_index(T.da, walk_branches(T, get_root, key).s)

\* the entries on the free list of the tail pool, from entry t on
RECURSIVE TailFreeFrom(_, _, _)
TailFreeFrom(tl, t, seen) ==
    IF t < 1 \/ t > Len(tl.tails) \/ t \in seen THEN seen
    ELSE TailFreeFrom(tl, tl.tails[t].next_free, seen \cup {t})

TailIsFree(tl, t) == ~TailAllocated(tl, t) /\ t \in TailFreeFrom(tl, tl.first_free, {})

\* the separate cells: owned by a parent, with a tail index for a base
SeparateCells(d) == {s \in OwnedCells(d) : is_separate(d, s)}

\* C1: store(k, v) of a key over the alphabet returns true, and retrieve(k)
\* right after it returns Some(v).
C1_StoreThenRetrieve ==
    last.kind = "store" => last.ret /\ retrieve(trie, last.key) = last.data

\* a store that had to move a base to make room for its key
C1_Witness ==
    /\ last.kind = "store" /\ last.ret /\ last.moved
    /\ retrieve(trie, last.key) = last.data

\* C2: a call on key k changes retrieve(k') for no other key k', and every
\* other key that was stored and not deleted since retrieves the value of the
\* last store that took effect for it.
C2_OtherKeysKept ==
    [][\A k \in Keys \ {last'.key} :
          /\ retrieve(trie', k) = retrieve(trie, k)
          /\ retrieve(trie', k) = expect'[k]]_vars

\* a store that moved a base with two other keys in the trie, one of them on a
\* cell that the split of a tail made (its parent is not the root)
C2_Witness ==
    /\ last.kind = "store" /\ last.ret /\ last.moved
    /\ Cardinality(Present(trie) \ {last.key}) = 2
    /\ \E k \in Present(trie) \ {last.key} :
          get_check(trie.da, walk_branches(trie, get_root, k).s) # get_root

\* C3: a store(k, v2) right after a store(k, v1) returns true, retrieve(k)
\* is Some(v2) and iteration yields as many keys as after the first store.
C3_Overwrite ==
    [][(last.kind = "store" /\ last'.kind = "store" /\ last'.key = last.key)
          => /\ last'.ret
             /\ retrieve(trie', last'.key) = last'.data
             /\ Len(IterAll(trie')) = Len(IterAll(trie))]_vars

\* the second of two stores, with another value, among other keys
C3_Witness ==
    /\ last.kind = "store" /\ last.ret /\ last.path = "match"
    /\ expect[last.key] = last.data
    /\ Len(IterAll(trie)) = 2
    /\ \E k \in Present(trie) : retrieve(trie, k) # last.data

\* C4: store_if_absent(k, v') of a present key returns false and changes
\* nothing (retrieve(k), the cells, the tail entries, is_dirty); of an absent
\* key it returns true and retrieve(k) is Some(v') afterwards.
C4_StoreIfAbsent ==
    [][last'.kind = "store_if_absent"
          => IF retrieve(trie, last'.key) # NoData
             THEN ~last'.ret /\ trie' = trie
             ELSE last'.ret /\ retrieve(trie', last'.key) = last'.data]_vars

\* a store_if_absent with another value than the one the key has
C4_Witness ==
    /\ last.kind = "store_if_absent" /\ ~last.ret
    /\ retrieve(trie, last.key) \notin {NoData, last.data}

\* C5: delete(k) of a present key k with tail index t returns true; after it
\* retrieve(k) is None, tail entry t is free and no separate cell has the tail
\* index t.
C5_DeletePresent ==
    [][(last'.kind = "delete" /\ retrieve(trie, last'.key) # NoData)
          => LET t == TailIndexOf(trie, last'.key)
             IN  /\ last'.ret
                 /\ retrieve(trie', last'.key) = NoData
                 /\ TailIsFree(trie'.tail, t)
                 /\ \A s \in SeparateCells(trie'.da) : get_tail_index(trie'.da, s) # t]_vars

\* a delete that took a key away and left a longer key that starts with it
C5_Witness ==
    /\ last.kind = "delete" /\ last.ret
    /\ retrieve(trie, last.key) = NoData
    /\ trie.tail.first_free # 0
    /\ \E k \in Present(trie) : Len(k) > Len(last.key)
          /\ SubSeq(k, 1, Len(last.key) - 1) = SubSeq(last.key, 1, Len(last.key) - 1)

\* C6: delete(k) returns true exactly when retrieve(k) was Some before the
\* call, and a delete that returns false changes nothing.
C6_DeleteResult ==
    [][last'.kind = "delete"
          => /\ last'.ret <=> retrieve(trie, last'.key) # NoData
             /\ ~last'.ret => trie' = trie]_vars

\* a delete of an absent key that a stored key extends, with a stored key that
\* it extends
C6_Witness ==
    /\ last.kind = "delete" /\ ~last.ret
    /\ \E k \in Present(trie) : Len(k) > Len(last.key)
          /\ SubSeq(k, 1, Len(last.key) - 1) = SubSeq(last.key, 1, Len(last.key) - 1)
    /\ \E k \in Present(trie) : Len(k) < Len(last.key)
          /\ SubSeq(k, 1, Len(k) - 1) = SubSeq(last.key, 1, Len(k) - 1)

\* the alphabet characters of a key, without its terminator
KeyWord(k) == SubSeq(k, 1, Len(k) - 1)

\* a comes before b in the order of the alphabet, a word before the words
\* that extend it
RECURSIVE LexLess(_, _)
LexLess(a, b) ==
    IF a = << >> THEN b # << >>
    ELSE IF b = << >> THEN FALSE
    ELSE IF a[1] # b[1] THEN a[1] < b[1]
    ELSE LexLess(Tail(a), Tail(b))

\* the keys the calls so far have stored and not deleted
StoredKeys == {k \in Keys : expect[k] # NoData}

\* C7: iteration yields one item for each key that is present and no other,
\* each key once, with its current value, in ascending order of the keys.
C7_Iteration ==
    LET yields(items) ==
            /\ {items[i].key : i \in 1..Len(items)} = StoredKeys
            /\ Len(items) = Cardinality(StoredKeys)
            /\ \A i \in 1..Len(items) : items[i].data = expect[items[i].key]
            /\ \A i, j \in 1..Len(items) :
                  i < j => LexLess(KeyWord(items[i].key), KeyWord(items[j].key))
    IN  yields(IterAll(trie))

\* three keys with two values, one key extending another
C7_Witness ==
    LET yields(items) ==
            /\ Len(items) = 3
            /\ \E i, j \in 1..3 : items[i].data # items[j].data
            /\ \E i, j \in 1..3 : Len(items[i].key) < Len(items[j].key)
                  /\ KeyWord(items[i].key) = SubSeq(items[j].key, 1, Len(items[i].key) - 1)
    IN  yields(IterAll(trie))

\* C8: a key that iteration yields is a key that was passed to store, element
\* for element: alphabet characters and then exactly one 0, whether the key's
\* terminator is an edge of the DArray or lies in the tail.
C8_KeysAsStored ==
    LET as_stored(k) ==
            /\ Len(k) >= 1 /\ k[Len(k)] = 0
            /\ \A j \in 1..(Len(k) - 1) : k[j] \in AlphaChars
            /\ k \in StoredKeys
        yields(items) == \A i \in 1..Len(items) : as_stored(items[i].key)
    IN  yields(IterAll(trie))

\* one key whose terminator is an edge of the DArray and one whose terminator
\* lies in the tail, behind another character
C8_Witness ==
    LET yields(items) ==
            /\ \E i \in 1..Len(items) :
                  /\ items[i].buf # << >>
                  /\ items[i].buf[Len(items[i].buf)] = TRIE_CHAR_TERM
                  /\ items[i].key \in StoredKeys
            /\ \E i \in 1..Len(items) :
                  /\ Len(items[i].buf) < Len(KeyWord(items[i].key))
                  /\ items[i].key \in StoredKeys
    IN  yields(IterAll(trie))

\* C9: from_reader(serialize(T)) succeeds; the trie it gives retrieves the
\* same for every key, iterates the same, and serializes to the same bytes.
C9_RoundTrip ==
    LET read(bytes, r) ==
            /\ r.ok
            /\ \A k \in Keys : retrieve(r.trie, k) = retrieve(trie, k)
            /\ IterAll(r.trie) = IterAll(trie)
            /\ trie_serialize(r.trie) = bytes
        written(bytes) == read(bytes, trie_from_reader(bytes))
    IN  written(trie_serialize(trie))

\* a trie with a key, a freed tail entry and a freed cell below an owned cell
C9_Witness ==
    /\ trie_from_reader(trie_serialize(trie)).ok
    /\ Present(trie) # {}
    /\ trie.tail.first_free # 0
    /\ \E s \in DA_POOL_BEGIN..(Len(trie.da) - 1), o \in OwnedCells(trie.da) :
          get_check(trie.da, s) < 0 /\ s < o

\* the calls with key change nothing and say so
Rejected(T, key) ==
    /\ retrieve(T, key) = NoData
    /\ delete(T, key) = [ret |-> FALSE, trie |-> T]
    /\ \A v \in Data : /\ store(T, key, v) = [ret |-> FALSE, trie |-> T]
                       /\ store_if_absent(T, key, v) = [ret |-> FALSE, trie |-> T]

\* C10: for a key with a character that is not 0 and not in the alphabet,
\* store, store_if_absent and delete return false, retrieve returns None, and
\* cells, tail entries and is_dirty stay as they are.
C10_UnknownCharRejected == \A k \in BadKeys : Rejected(trie, k)

\* the walk of key through the DArray, up to its first unknown character
BranchWalk(T, key) == walk_branches(T, get_root, key)

\* a key rejected after a character of it was walked in the DArray, and a key
\* rejected after a character of it was matched in a tail
C10_Witness ==
    /\ \E k \in BadKeys :
          /\ BranchWalk(trie, k).how = "unknown"
          /\ Len(BranchWalk(trie, k).p) < Len(k)
          /\ Rejected(trie, k)
    /\ \E k \in BadKeys :
          /\ BranchWalk(trie, k).how = "tail"
          /\ BranchWalk(trie, k).p[1] \in AlphaChars
          /\ tail_walk_char(trie.tail, TailIndexOf(trie, k), 0,
                            alpha_map_char_to_trie(trie.alpha_map, BranchWalk(trie, k).p[1]))
             # NoIndex
          /\ StorePath(trie, k) = "unknown"
          /\ Rejected(trie, k)

\* C11: is_dirty() is true after Trie::new and from_ro and after every store,
\* store_if_absent or delete that returns true; it is false right after
\* serialize and after from_reader; a store, store_if_absent or delete that
\* returns false, a retrieve and an iteration leave it as it was.
C11_Dirty ==
    [][/\ last.kind = "new" => is_dirty(trie)
       /\ last'.kind = "from_ro" => is_dirty(trie')
       /\ last'.kind \in {"store", "store_if_absent", "delete"}
             => IF last'.ret THEN is_dirty(trie')
                ELSE is_dirty(trie') = is_dirty(trie)
       /\ last'.kind \in {"serialize", "from_reader"} => ~is_dirty(trie')
       /\ last'.kind \in {"retrieve", "iter"} => is_dirty(trie') = is_dirty(trie)]_vars

\* a saved trie with a key, after a call that returned false
C11_Witness ==
    /\ last.kind \in {"store_if_absent", "delete"} /\ ~last.ret
    /\ ~is_dirty(trie)
    /\ Present(trie) # {}

\* bytes that follow a trie in a stream: nothing, one byte, the start of
\* another section, a cell
Followers ==
    {<< >>, << 0 >>, BE32(DA_SIGNATURE) \o BE32(1), BE32(TAIL_SIGNATURE), BE32(-1) \o BE32(2)}

\* C12: serialize writes exactly serialized_size() bytes; from_reader of a
\* stream that starts with them reads the AlphaMap section, then the DArray
\* section, then the Tail section, and stops right behind them.
C12_ExactSize ==
    LET in_order(bytes, a, d, size_a, size_d) ==
            /\ a.ok /\ a.pos = 1 + size_a
            /\ d.ok /\ d.pos = 1 + size_a + size_d
        read(bytes, longer, r) ==
            /\ r.ok
            /\ r.pos = Len(bytes) + 1
            /\ r.trie = trie_from_reader(bytes).trie
            /\ in_order(bytes, alpha_map_read(longer, 1),
                        da_read(longer, 1 + alpha_map_get_serialized_size(trie.alpha_map)),
                        alpha_map_get_serialized_size(trie.alpha_map),
                        da_get_serialized_size(trie.da))
        written(bytes) ==
            /\ Len(bytes) = serialized_size(trie)
            /\ \A f \in Followers : read(bytes, bytes \o f, trie_from_reader(bytes \o f))
    IN  written(trie_serialize(trie))

\* a trie with a key, a suffix of several symbols and a freed tail entry
C12_Witness ==
    /\ Present(trie) # {}
    /\ trie.tail.first_free # 0
    /\ \E t \in 1..Len(trie.tail.tails) : Len(trie.tail.tails[t].suffix) >= 2
    /\ Len(trie_serialize(trie)) = serialized_size(trie)
    /\ trie_from_reader(trie_serialize(trie) \o << 0 >>).pos = serialized_size(trie) + 1

\* four bytes that are not the signature sig: the signatures of the other
\* sections, sig with its last byte changed, and zeros
WrongSignatures(sig) ==
    ({BE32(ALPHAMAP_SIGNATURE), BE32(DA_SIGNATURE), BE32(TAIL_SIGNATURE), BE32(sig + 1), BE32(0)})
    \ {BE32(sig)}

\* the stream with the four bytes at pos replaced
WithBytesAt(bytes, pos, four) ==
    SubSeq(bytes, 1, pos - 1) \o four \o SubSeq(bytes, pos + 4, Len(bytes))

\* from_reader gives the error InvalidData and no trie
InvalidData(r) == ~r.ok /\ r.err = "InvalidData"

\* C13: from_reader returns InvalidData, and no trie, when the first four
\* bytes of the AlphaMap section are not 0xd9fcd9fc, when those of the DArray
\* section are not 0xdafcdafc, and when those of the Tail section are not its
\* signature.
C13_SignatureMismatch ==
    LET sections(bytes, at_da, at_tail) ==
            /\ \A w \in WrongSignatures(ALPHAMAP_SIGNATURE) :
                  /\ InvalidData(trie_from_reader(WithBytesAt(bytes, 1, w)))
                  /\ InvalidData(trie_from_reader(
                         WithBytesAt(WithBytesAt(bytes, 1, w), at_da, w)))
            /\ \A w \in WrongSignatures(DA_SIGNATURE) :
                  InvalidData(trie_from_reader(WithBytesAt(bytes, at_da, w)))
            /\ \A w \in WrongSignatures(TAIL_SIGNATURE) :
                  InvalidData(trie_from_reader(WithBytesAt(bytes, at_tail, w)))
    IN  sections(trie_serialize(trie),
                 1 + alpha_map_get_serialized_size(trie.alpha_map),
                 1 + alpha_map_get_serialized_size(trie.alpha_map)
                   + da_get_serialized_size(trie.da))

\* a stream with keys that from_reader takes, and refuses for the signature
\* of its DArray section alone
C13_Witness ==
    /\ Cardinality(Present(trie)) >= 2
    /\ trie_from_reader(trie_serialize(trie)).ok
    /\ SubSeq(trie_serialize(trie), 1 + alpha_map_get_serialized_size(trie.alpha_map),
              4 + alpha_map_get_serialized_size(trie.alpha_map)) = BE32(DA_SIGNATURE)
    /\ InvalidData(trie_from_reader(
           WithBytesAt(trie_serialize(trie),
                       1 + alpha_map_get_serialized_size(trie.alpha_map),
                       BE32(DA_SIGNATURE + 1))))

\* C14: whatever the bytes, from_reader returns an error, or a trie over which
\* a complete iteration ends without a panic: loading never panics, and the
\* iteration of what was loaded neither panics nor runs forever.
C14_LoadAndIterateEnd == stream.result \notin {"panic", "diverges"}

\* the characters of the ranges, none of them above MaxChar
Alphabet(ranges) ==
    {ch \in 1..MaxChar : \E i \in 1..Len(ranges) : ULe(ranges[i].begin, ch) /\ ULe(ch, ranges[i].end)}

\* C15: add_range(begin..=end) of a range that holds ALPHA_CHAR_ERROR, or that
\* would make the alphabet more than 254 characters, reports failure and leaves
\* the ranges and both tables as they were.
C15_AddRangeRejects ==
    [][LET unfit(b, e) ==
               /\ ULe(b, e)
               /\ \/ e = ALPHA_CHAR_ERROR
                  \/ Cardinality(Alphabet(alpha.ranges) \cup CharsOf(b, e)) > 254
       IN  (last'.kind = "add_range" /\ last'.path = "returned"
            /\ unfit(last'.key[1], last'.key[2]))
           => (~last'.ret /\ alpha' = alpha)]_vars

\* C16: after calls of add_range that all succeeded, every character of a
\* range has a symbol t >= 1 with trie_to_char(t) the character; 0 and the
\* terminator stand for each other; a character other than 0 that is in no
\* range has no symbol; and a symbol that no character has gives
\* ALPHA_CHAR_ERROR.  trie_to_char takes a TrieChar, so t is passed as one.
C16_RoundTrip ==
    LET symbols == {alpha_map_char_to_trie(alpha, ac) : ac \in expect.chars}
    IN  (last.path = "returned" /\ ~expect.failed /\ expect.chars # {})
        => /\ \A ac \in expect.chars :
                /\ alpha_map_char_to_trie(alpha, ac) >= 1
                /\ alpha_map_char_to_trie(alpha, ac) # TRIE_INDEX_MAX
                /\ alpha_map_trie_to_char(alpha, AsTrieChar(alpha_map_char_to_trie(alpha, ac)))
                   = ac
           /\ alpha_map_char_to_trie(alpha, 0) = TRIE_CHAR_TERM
           /\ alpha_map_trie_to_char(alpha, TRIE_CHAR_TERM) = 0
           /\ \A ac \in ((1..(MaxChar + 1)) \cup {ALPHA_CHAR_ERROR}) \ expect.chars :
                alpha_map_char_to_trie(alpha, ac) = TRIE_INDEX_MAX
           /\ \A t \in (1..TRIE_CHAR_MAX) \ symbols :
                alpha_map_trie_to_char(alpha, t) = ALPHA_CHAR_ERROR

\* the ranges a section stores, as they stand in the stream
StoredRanges(bytes) ==
    [i \in 1..read_i32(bytes, 5).v |->
        [begin |-> read_i32(bytes, 8 * i + 1).v, end |-> read_i32(bytes, 8 * i + 5).v]]

\* C17: reading an AlphaMap section gives no AlphaMap when a stored range has
\* begin > end, holds ALPHA_CHAR_ERROR, or makes the alphabet more than 254
\* characters: a read that succeeds has met no such range.
C17_ReadRejects ==
    LET fit(ranges) ==
            /\ \A i \in 1..Len(ranges) :
                  ULe(ranges[i].begin, ranges[i].end) /\ ranges[i].end # ALPHA_CHAR_ERROR
            /\ Cardinality(Alphabet(ranges)) <= 254
    IN  stream.result = "read" => fit(StoredRanges(stream.bytes))

C19_HeaderConsistent ==
    /\ get_base(trie.da, 0) = DA_SIGNATURE
    /\ get_check(trie.da, 0) = Len(trie.da)

\* the cells that following -check from cell 1 comes to, in that order, up to
\* the first one that is cell 1, is no cell, or was come to before: [ring, back]
\* with back = TRUE when the walk is back at cell 1
RECURSIVE FreeRing(_, _, _)
FreeRing(d, s, ring) ==
    LET to(next) ==
            IF next = get_free_list THEN [ring |-> ring, back |-> TRUE]
            ELSE IF ~InCells(d, next) \/ \E i \in 1..Len(ring) : ring[i] = next
            THEN [ring |-> ring, back |-> FALSE]
            ELSE FreeRing(d, next, Append(ring, next))
    IN  to(-get_check(d, s))

\* C20: the free list is a circular doubly-linked list through cell 1: a cell
\* of the pool has a negative check exactly when it is on the list; following
\* -check from cell 1 comes to every free cell once and then back to cell 1;
\* and the base of the cell after a cell of the ring, cell 1 included, points
\* back to it.
C20_FreeList ==
    LET formed(w) ==
            /\ w.back
            /\ \A s \in DA_POOL_BEGIN..(Len(trie.da) - 1) :
                  get_check(trie.da, s) < 0 <=> \E i \in 1..Len(w.ring) : w.ring[i] = s
            /\ \A i \in 1..Len(w.ring) : w.ring[i] >= DA_POOL_BEGIN
            /\ \A x \in {get_free_list} \cup {w.ring[i] : i \in 1..Len(w.ring)} :
                  -get_base(trie.da, -get_check(trie.da, x)) = x
    IN  formed(FreeRing(trie.da, get_free_list, << >>))

\* a delete has freed a cell below a cell that is in use, and the ring has
\* more than one cell
C20_Witness ==
    /\ \E s \in DA_POOL_BEGIN..(Len(trie.da) - 1) :
          /\ get_check(trie.da, s) < 0
          /\ \E u \in (s + 1)..(Len(trie.da) - 1) : get_check(trie.da, u) > 0
    /\ Len(FreeRing(trie.da, get_free_list, << >>).ring) >= 2

\* C21: following -check from cell 1 comes to the free cells in strictly
\* ascending order of their indices.
C21_FreeListAscending ==
    LET ascending(ring) == \A i \in 1..(Len(ring) - 1) : ring[i] < ring[i + 1]
    IN  ascending(FreeRing(trie.da, get_free_list, << >>).ring)

\* a freed cell stands in the ring between two other free cells, below a cell
\* that is in use
C21_Witness ==
    LET between(ring) ==
            \E i \in 2..(Len(ring) - 1) :
                /\ ring[i + 1] > ring[i] + 1
                /\ \E u \in (ring[i] + 1)..(ring[i + 1] - 1) : get_check(trie.da, u) > 0
                /\ ring[i - 1] < ring[i] - 1
    IN  between(FreeRing(trie.da, get_free_list, << >>).ring)

\* the walk along check from s comes to the root within n steps, over cells in
\* use only
RECURSIVE ReachesRoot(_, _, _)
ReachesRoot(d, s, n) ==
    IF s = get_root THEN TRUE
    ELSE IF n = 0 \/ s < DA_POOL_BEGIN \/ ~InCells(d, s) \/ get_check(d, s) < 0 THEN FALSE
    ELSE ReachesRoot(d, get_check(d, s), n - 1)

\* C22: every pool cell in use (index >= 3, check >= 0) has for its check the
\* root or a pool cell in use, that parent has a positive base and the cell
\* lies 0..255 above it, so that walking from the parent with that symbol
\* reaches the cell; and the walk along check from the cell comes to the root.
C22_CheckTree ==
    LET d == trie.da
        edge(s, p) ==
            /\ p = get_root \/ (p >= DA_POOL_BEGIN /\ InCells(d, p) /\ get_check(d, p) >= 0)
            /\ get_base(d, p) > 0
            /\ s - get_base(d, p) >= 0
            /\ s - get_base(d, p) <= TRIE_CHAR_MAX
            /\ da_walk(d, p, s - get_base(d, p)) = s
    IN  \A s \in DA_POOL_BEGIN..(Len(d) - 1) :
            get_check(d, s) >= 0 => edge(s, get_check(d, s)) /\ ReachesRoot(d, s, Len(d))

\* a cell two edges below the root, and a cell with a lower index than its
\* parent: it stands where a cell was freed by a relocation or a prune
C22_Witness ==
    LET d == trie.da
    IN  /\ \E s \in OwnedCells(d) : get_check(d, s) # get_root
        /\ \E s \in OwnedCells(d) : s < get_check(d, s)

\* C23: distinct separate cells hold distinct tail indices, each of them the
\* index of an allocated Tail entry whose suffix ends with TRIE_CHAR_TERM, and
\* every allocated Tail entry is the tail index of exactly one separate cell.
C23_TailEntriesOwned ==
    LET d == trie.da
        tl == trie.tail
        ends(suffix) == suffix # << >> /\ suffix[Len(suffix)] = TRIE_CHAR_TERM
    IN  /\ \A s1, s2 \in SeparateCells(d) :
              s1 # s2 => get_tail_index(d, s1) # get_tail_index(d, s2)
        /\ \A s1 \in SeparateCells(d) :
              /\ TailAllocated(tl, get_tail_index(d, s1))
              /\ ends(tail_get_suffix(tl, get_tail_index(d, s1)))
        /\ \A t \in 1..Len(tl.tails) :
              TailAllocated(tl, t) =>
                  Cardinality({s1 \in SeparateCells(d) : get_tail_index(d, s1) = t}) = 1

\* a tail was split (a separate cell lies below a cell that is not the root)
\* and an entry was freed by a delete and is still free
C23_Witness ==
    /\ \E s1 \in SeparateCells(trie.da) : get_check(trie.da, s1) # get_root
    /\ trie.tail.first_free # 0

\* C24: after calls of add_range with begin <= end that all succeeded, the
\* stored ranges are sorted by begin, two ranges that follow one another have
\* r1.end + 1 < r2.begin, and the stored ranges hold the characters of the
\* ranges added and no other.
C24_RangesMerged ==
    LET r == alpha.ranges
        apart(r1, r2) ==
            /\ ULe(r1.begin, r2.begin) /\ r1.begin # r2.begin
            /\ r1.end # ALPHA_CHAR_ERROR
            /\ ULe(r1.end + 1, r2.begin) /\ r1.end + 1 # r2.begin
    IN  (last.path \in {"new", "returned"} /\ ~expect.failed)
        => /\ \A i \in 1..(Len(r) - 1) : apart(r[i], r[i + 1])
           /\ Alphabet(r) = expect.chars

TrieSymbols == {alpha_map_char_to_trie(trie.alpha_map, ch) : ch \in AlphaChars \cup {0}}

\* a call on the double array, written down with the base s had, when it is
\* about a cell s
OnDArray(kind, key, next, d) ==
    /\ last.path # "darray"
    /\ trie' = [trie EXCEPT !.da = d]
    /\ last' = [kind |-> kind, key |-> key, data |-> next,
                ret |-> next # TRIE_INDEX_ERROR, path |-> "darray",
                moved |-> CellsMoved(trie.da, d)]
    /\ UNCHANGED << expect, nops, stream, alpha, readers, index_max >>

InsertBranchCall(s, c) ==
    LET inserted(ins) ==
            OnDArray("insert_branch", << s, c, get_base(trie.da, s) >>, ins.next, ins.da)
    IN  inserted(da_insert_branch(trie.da, s, c))

\* Symbols::add of each symbol of a set: the ascending list of them
RECURSIVE SymbolsOf(_)
SymbolsOf(S) ==
    IF S = {} THEN << >>
    ELSE LET c == CHOOSE x \in S : TRUE
         IN  SymbolsAdd(SymbolsOf(S \ {c}), c)

FindFreeBaseCall(symbols) ==
    LET found(f) == OnDArray("find_free_base", symbols, f.base, f.da)
    IN  found(find_free_base(trie.da, symbols))

\* the cells in use before that are free after
FreedCells(before, after) == {x \in OwnedCells(before) : get_check(after, x) < 0}

\* delete as one more call of the trie, written down with the number of cells
\* it freed
FinalDelete(k) ==
    LET deleted(r) ==
            /\ last.path # "darray"
            /\ trie' = r.trie
            /\ expect' = Deleted(k)
            /\ last' = [kind |-> "delete", key |-> k,
                        data |-> Cardinality(FreedCells(trie.da, r.trie.da)),
                        ret |-> r.ret, path |-> "darray",
                        moved |-> CellsMoved(trie.da, r.trie.da)]
            /\ UNCHANGED << nops, stream, alpha, readers, index_max >>
    IN  deleted(delete(trie, k))

NextDArray ==
    \/ last.path # "darray" /\ NextCall
    \/ \E k \in Keys : FinalDelete(k)
    \/ \E s \in {get_root} \cup OwnedCells(trie.da), c \in TrieSymbols : InsertBranchCall(s, c)
    \/ \E S \in (SUBSET TrieSymbols) \ {{}} : FindFreeBaseCall(SymbolsOf(S))

SpecDArray == Init /\ [][NextDArray]_vars

\* what is below cell x: its tail index, or its symbols, each with what is
\* below the cell the symbol leads to.  The edge c of cell s is left out, and
\* with as_branch cell s counts as a cell without a tail index.
RECURSIVE Below(_, _, _, _, _, _)
Below(d, x, s, c, as_branch, n) ==
    LET kept(symbols) == IF x = s THEN symbols \ {c} ELSE symbols
        set(syms) == {syms[i] : i \in 1..Len(syms)}
        under(base) ==
            IF n = 0 THEN [tail |-> -1, edges |-> << >>]
            ELSE IF base < 0 /\ ~(x = s /\ as_branch)
            THEN [tail |-> -base, edges |-> << >>]
            ELSE IF base <= 0 THEN [tail |-> 0, edges |-> << >>]
            ELSE [tail |-> 0,
                  edges |-> [k \in kept(set(ChildSymbols(d, x, base))) |->
                               Below(d, base + k, s, c, as_branch, n - 1)]]
    IN  under(get_base(d, x))

\* the first two parts of C26, of a call insert_branch(s, c) on d that gave
\* next and left d2
InsertBranchReturns(d, d2, s, c, next) ==
    /\ next # TRIE_INDEX_ERROR
       => next = get_base(d2, s) + c /\ get_check(d2, next) = s
    /\ da_walk(d, s, c) # NoIndex => next = da_walk(d, s, c) /\ d2 = d

\* C26 as it stands: insert_branch(s, c) that succeeds returns n = base(s) + c
\* with check(n) = s; when the edge was there it returns the cell the edge
\* leads to and changes no cell; and every edge that was there before the call
\* is there after it and leads to the same tail index or to the same symbols
\* with the same below them.
C26_InsertBranchKeepsAll ==
    [][LET kept(d, d2, s, c) ==
               /\ InsertBranchReturns(d, d2, s, c, last'.data)
               /\ last'.ret => Below(d2, get_root, s, c, FALSE, Len(d2))
                               = Below(d, get_root, s, c, FALSE, Len(d))
       IN  last'.kind = "insert_branch"
           => kept(trie.da, trie'.da, last'.key[1], last'.key[2])]_vars

\* C26, amended: as above, but a separate cell s does not keep its tail index:
\* its base is overwritten with the base found for c.
C26_InsertBranchKeepsOthers ==
    [][LET kept(d, d2, s, c) ==
               /\ InsertBranchReturns(d, d2, s, c, last'.data)
               /\ last'.ret => Below(d2, get_root, s, c, TRUE, Len(d2))
                               = Below(d, get_root, s, c, TRUE, Len(d))
       IN  last'.kind = "insert_branch"
           => kept(trie.da, trie'.da, last'.key[1], last'.key[2])]_vars

\* insert_branch gave s another base, and a child of s that was moved has
\* children of its own
C26_Witness ==
    /\ last.kind = "insert_branch"
    /\ last.ret
    /\ last.moved
    /\ last.key[3] > 0
    /\ get_base(trie.da, last.key[1]) # last.key[3]
    /\ \E x \in OwnedCells(trie.da) :
          /\ get_check(trie.da, x) = last.key[1]
          /\ x # last.data
          /\ has_children(trie.da, x)

\* C27: find_free_base of a list of symbols that is ascending and not empty
\* returns TRIE_INDEX_ERROR or a base b >= DA_POOL_BEGIN with every cell
\* b + sym in the pool, at index 3 or above, and free; and it leaves the base
\* and check of the root and of every cell in use as they were.
C27_FindFreeBase ==
    [][LET found(d, d2, symbols, b) ==
               /\ \/ b = TRIE_INDEX_ERROR
                  \/ /\ b >= DA_POOL_BEGIN
                     /\ \A i \in 1..Len(symbols) :
                           /\ InCells(d2, b + symbols[i])
                           /\ b + symbols[i] >= DA_POOL_BEGIN
                           /\ get_check(d2, b + symbols[i]) < 0
               /\ Len(d2) >= Len(d)
               /\ \A x \in {get_root} \cup OwnedCells(d) : d2[x + 1] = d[x + 1]
       IN  last'.kind = "find_free_base"
           => found(trie.da, trie'.da, last'.key, last'.data)]_vars

\* a base for two symbols or more, found after a free cell that did not fit:
\* the cell of another symbol was in use
C27_Witness ==
    /\ last.kind = "find_free_base"
    /\ Len(last.key) >= 2
    /\ last.data >= DA_POOL_BEGIN
    /\ \E x \in DA_POOL_BEGIN..(Len(trie.da) - 1) :
          /\ get_check(trie.da, x) < 0
          /\ x >= last.key[1] + DA_POOL_BEGIN
          /\ x - last.key[1] < last.data

\* the cells the claim has delete free: x, then its parent when no other child
\* of the parent is left, and so on, the root never
RECURSIVE PruneChain(_, _, _)
PruneChain(d, x, chain) ==
    IF x = get_root \/ x \notin OwnedCells(d) THEN chain
    ELSE IF \E y \in OwnedCells(d) \ chain : get_check(d, y) = x THEN chain
    ELSE PruneChain(d, get_check(d, x), chain \cup {x})

\* C28: delete of a key that is present frees the separate cell of the key and
\* then each ancestor that has no child left, up to the root, which is never
\* freed, or to the first ancestor that has a child left; these are the only
\* cells freed, and every other cell in use and the root keep base and check.
C28_DeletePrunes ==
    [][LET pruned(d, d2, chain) ==
               /\ FreedCells(d, d2) = chain
               /\ get_check(d2, get_root) = get_check(d, get_root)
               /\ \A x \in ({get_root} \cup OwnedCells(d)) \ chain : d2[x + 1] = d[x + 1]
       IN  (last'.kind = "delete" /\ last'.ret)
           => pruned(trie.da, trie'.da,
                     PruneChain(trie.da, walk_branches(trie, get_root, last'.key).s, {}))]_vars

\* a delete that freed the cell of the key and the cell above it, which had
\* lost its other child to a delete before
C28_Witness ==
    /\ last.kind = "delete"
    /\ last.ret
    /\ last.path = "darray"
    /\ last.data >= 2

(***************************************************************************)
(* The calls of a trie whose pool gets full: the build has a number up to   *)
(* PoolMax for TRIE_INDEX_MAX, so that extend_pool fails where the real     *)
(* pool would fail at 2^31 - 1 cells.  The smallest leaves two pool cells.  *)
(***************************************************************************)
PoolMax == 8

InitFull ==
    /\ index_max \in (DA_POOL_BEGIN + 2)..PoolMax
    /\ trie = TrieNew(alpha_map_add_range(
                        alpha_map_add_range(AlphaMapDefault, 5, 5).am, 7, 7).am)
    /\ last = [kind |-> "new", key |-> << >>, data |-> NoData, ret |-> TRUE,
               path |-> "new", moved |-> FALSE]
    /\ expect = [k \in Keys |-> NoData]
    /\ nops = 0
    /\ stream = [bytes |-> << >>, result |-> "none"]
    /\ alpha = AlphaMapDefault
    /\ readers = Idle

SpecFull == InitFull /\ [][NextCall]_vars

\* C29: when insert_branch fails while store splits a tail, store returns false
\* and has changed nothing: the separate cell that was split holds its tail
\* index again, the suffix of that entry is as it was, no cell that was free
\* is in use, the new key is not retrieved and every key retrieves what it
\* did before.
C29_FailedSplitIsNoOp ==
    [][LET sep == walk_branches(trie, get_root, last'.key).s
           old_tail == get_tail_index(trie.da, sep)
       IN  (last'.kind \in {"store", "store_if_absent"} /\ last'.path = "split" /\ ~last'.ret)
           => /\ get_base(trie'.da, sep) = -old_tail
              /\ get_check(trie'.da, sep) = get_check(trie.da, sep)
              /\ tail_get_suffix(trie'.tail, old_tail) = tail_get_suffix(trie.tail, old_tail)
              /\ OwnedCells(trie'.da) = OwnedCells(trie.da)
              /\ retrieve(trie', last'.key) = NoData
              /\ \A k \in Keys : retrieve(trie', k) = retrieve(trie, k)]_vars

\* C30: iteration ends: on a trie that calls have made or that was read back,
\* holding n keys, no search of next() comes to a cell twice, next() returns
\* Some n times and then None, and on an empty trie the first next() returns
\* None.
C30_IterationEnds ==
    LET ended(it) == ~iter_next(trie, it).ret
    IN  /\ iterate(trie, TRIE_INDEX_ERROR, << >>, {}) = "done"
        \* IterAll are the items up to the first None
        /\ Len(IterAll(trie)) = Cardinality(StoredKeys)
        /\ StoredKeys = {} => ended(trie_iter(trie))

\* a trie of three keys, one of them not below the cell of the other two, so
\* that the search goes up through that cell
C30_Witness ==
    /\ Cardinality(StoredKeys) = 3
    /\ \E x \in SeparateCells(trie.da) : get_check(trie.da, x) = get_root
    /\ \E x \in SeparateCells(trie.da) : get_check(trie.da, x) # get_root

(***************************************************************************)
(* A TrieState over a trie that calls of store, store_if_absent and delete *)
(* made, and a TrieIterator made of the state.  The state borrows the      *)
(* trie, so no call changes the trie once a state is held.  A reader in    *)
(* phase "state" holds the TrieState, the latest call on it with its       *)
(* argument and result, and the characters walked since root() or          *)
(* rewind(); a reader in phase "under" holds the TrieIterator, the items   *)
(* next() gave and every result of next() so far.                          *)
(***************************************************************************)
\* the characters walk is called with: of the alphabet, outside it, and 0
WalkChars == AlphaChars \cup BadChars \cup {0}

\* the calls of next() that are made after next() returned None
MaxNones == 2

HoldsState(r, call, arg, ret, state, walked) ==
    Reads(r, [phase |-> "state", call |-> call, arg |-> arg, ret |-> ret,
              state |-> state, walked |-> walked])

\* trie.root()
RootCall(r) ==
    /\ readers = Idle
    /\ HoldsState(r, "root", 0, TRUE, trie_root(trie), << >>)

\* state.walk(c)
WalkCall(r, c) ==
    LET walked(w) ==
            HoldsState(r, "walk", c, w.ret, w.state,
                       IF w.ret THEN Append(readers[r].walked, c) ELSE readers[r].walked)
    IN  /\ readers[r].phase = "state"
        /\ walked(state_walk(trie, readers[r].state, c))

\* state.rewind()
RewindCall(r) ==
    /\ readers[r].phase = "state"
    /\ HoldsState(r, "rewind", 0, TRUE, state_rewind(trie, readers[r].state), << >>)

\* TrieIterator::new(&state)
IterNewCall(r) ==
    /\ readers[r].phase = "state"
    /\ Reads(r, [phase |-> "under", it |-> TrieIteratorNew(readers[r].state),
                 walked |-> readers[r].walked, items |-> << >>, rets |-> << >>])

\* next() of the iterator, also after it returned None
IterNextCall(r) ==
    LET stepped(n) ==
            [readers[r] EXCEPT
               !.it = n.it,
               !.rets = Append(@, n.ret),
               !.items = IF n.ret
                         THEN Append(@, [key |-> iter_key(trie, n.it),
                                         data |-> iter_data(trie, n.it)])
                         ELSE @]
    IN  /\ readers[r].phase = "under"
        /\ Len(readers[r].rets) - Len(readers[r].items) <= MaxNones
        /\ Reads(r, stepped(iter_next(trie, readers[r].it)))

NextState ==
    \/ readers = Idle /\ Next
    \/ \E r \in Readers :
          \/ RootCall(r)
          \/ \E c \in WalkChars : WalkCall(r, c)
          \/ RewindCall(r)
          \/ IterNewCall(r)
          \/ IterNextCall(r)

SpecState == Init /\ [][NextState]_vars

\* p is the beginning of the key k
IsPrefix(p, k) == Len(p) <= Len(k) /\ SubSeq(k, 1, Len(p)) = p

\* the characters of p are characters of a key, none the terminator
NoTerminator(p) == \A i \in 1..Len(p) : p[i] # 0

\* C31: an iterator made of a state that was reached from root() by walking the
\* characters of a prefix p yields, for each stored key that begins with p, the
\* rest of that key after p, each once and in ascending order, and no other
\* item; made of a state in suffix mode it yields one item and then None.
C31_IteratorUnderPrefix ==
    LET rest(p, k) == SubSeq(k, Len(p) + 1, Len(k))
        under(p) == {k \in StoredKeys : IsPrefix(p, k)}
        ended(rets) == \E i \in 1..Len(rets) : ~rets[i]
        yields(p, items, rets, root) ==
            /\ \A i \in 1..Len(items) : items[i].key \in {rest(p, k) : k \in under(p)}
            /\ \A i, j \in 1..Len(items) :
                  i < j => LexLess(KeyWord(items[i].key), KeyWord(items[j].key))
            /\ ended(rets) => Len(items) = Cardinality(under(p))
            /\ (root.is_suffix /\ rets # << >>) => rets[1] /\ Len(items) = 1
            /\ (root.is_suffix /\ Len(rets) >= 2) => ~rets[2]
    IN  \A r \in Readers :
            (readers[r].phase = "under" /\ NoTerminator(readers[r].walked))
            => yields(readers[r].walked, readers[r].items, readers[r].rets,
                      readers[r].it.root)

\* next() has returned None after two items under a prefix that is not empty,
\* while the trie holds a key that does not begin with the prefix
C31_Witness ==
    \E r \in Readers :
        /\ readers[r].phase = "under"
        /\ readers[r].walked # << >> /\ NoTerminator(readers[r].walked)
        /\ ~readers[r].it.root.is_suffix
        /\ Len(readers[r].items) = 2
        /\ \E i \in 1..Len(readers[r].rets) : ~readers[r].rets[i]
        /\ \E k \in StoredKeys : ~IsPrefix(readers[r].walked, k)

\* C32: a walk that returns true in branch mode moves index to the cell
\* base(index) + symbol, whose check is the old index, and when that cell is
\* separate the state is in suffix mode at the cell's tail index with
\* suffix_idx 0; a walk that returns true in suffix mode changes suffix_idx
\* only; a walk that returns false changes nothing; and only rewind() takes a
\* state from suffix mode to branch mode.
C32_WalkStateMachine ==
    [][LET symbol(c) == alpha_map_char_to_trie(trie.alpha_map, c)
           crossed(st, st2, next) ==
               /\ get_check(trie.da, next) = st.index
               /\ IF get_base(trie.da, next) < 0
                  THEN st2 = [index |-> -get_base(trie.da, next), suffix_idx |-> 0,
                              is_suffix |-> TRUE]
                  ELSE st2 = [st EXCEPT !.index = next]
           walked(st, st2, c, ret) ==
               /\ ~ret => st2 = st
               /\ (ret /\ ~st.is_suffix)
                  => crossed(st, st2, get_base(trie.da, st.index) + symbol(c))
               /\ (ret /\ st.is_suffix)
                  => /\ st2 = [st EXCEPT !.suffix_idx = st2.suffix_idx]
                     /\ st2.suffix_idx # st.suffix_idx
       IN  \A r \in Readers :
               (readers[r].phase = "state" /\ readers'[r].phase = "state")
               => /\ readers'[r].call = "walk"
                     => walked(readers[r].state, readers'[r].state,
                               readers'[r].arg, readers'[r].ret)
                  /\ (readers[r].state.is_suffix /\ ~readers'[r].state.is_suffix)
                     => readers'[r].call = "rewind"]_vars

\* a walk of a second character went from a branch cell into a tail, in a trie
\* with a tail of two symbols or more
C32_Witness ==
    \E r \in Readers :
        /\ readers[r].phase = "state"
        /\ readers[r].call = "walk" /\ readers[r].ret
        /\ readers[r].state.is_suffix /\ readers[r].state.suffix_idx = 0
        /\ Len(readers[r].walked) = 2
        /\ \E t \in 1..Len(trie.tail.tails) : Len(trie.tail.tails[t].suffix) >= 2

\* C33: a walk of a character that is not 0, after walks of such characters
\* from root() that all returned true, returns true exactly when the characters
\* walked and this one begin some stored key; after the walks is_terminal() is
\* true exactly when the characters walked are a stored key, and get_data() is
\* then the key's value and None otherwise.
C33_WalkFollowsKeys ==
    LET begins(p) == \E k \in StoredKeys : IsPrefix(p, k)
        key(p) == Append(p, 0)
        told(st, p) ==
            /\ p # << >> => begins(p)
            /\ state_is_terminal(trie, st) <=> key(p) \in StoredKeys
            /\ state_get_data(trie, st)
               = IF key(p) \in StoredKeys THEN expect[key(p)] ELSE NoData
        walked(rd) ==
            /\ told(rd.state, rd.walked)
            /\ (rd.call = "walk" /\ rd.arg # 0)
               => (rd.ret <=> begins(IF rd.ret THEN rd.walked
                                     ELSE Append(rd.walked, rd.arg)))
    IN  \A r \in Readers :
            (readers[r].phase = "state" /\ NoTerminator(readers[r].walked))
            => walked(readers[r])

\* a state in branch mode below the root at the end of a stored key that
\* another stored key extends
C33_Witness ==
    \E r \in Readers :
        /\ readers[r].phase = "state"
        /\ readers[r].walked # << >> /\ NoTerminator(readers[r].walked)
        /\ ~readers[r].state.is_suffix
        /\ state_is_terminal(trie, readers[r].state)
        /\ state_get_data(trie, readers[r].state) # NoData

(***************************************************************************)
(* Tries that store and store_if_absent made and no delete, over keys of   *)
(* up to three characters: two keys can share two characters, so that a    *)
(* store finds the first of them in the tail of the other.                 *)
(***************************************************************************)
DeepKeys == Keys \cup {<< 5, 5, 5, 0 >>, << 5, 5, 7, 0 >>}

InitStores ==
    /\ index_max = TRIE_INDEX_MAX
    /\ trie = TrieNew(alpha_map_add_range(
                        alpha_map_add_range(AlphaMapDefault, 5, 5).am, 7, 7).am)
    /\ last = [kind |-> "new", key |-> << >>, data |-> NoData, ret |-> TRUE,
               path |-> "new", moved |-> FALSE]
    /\ expect = [k \in DeepKeys |-> NoData]
    /\ nops = 0
    /\ stream = [bytes |-> << >>, result |-> "none"]
    /\ alpha = AlphaMapDefault
    /\ readers = Idle

NextStores ==
    \/ \E k \in DeepKeys, v \in Data : StoreCall(k, v)
    \/ \E k \in DeepKeys, v \in Data : StoreIfAbsentCall(k, v)

SpecStores == InitStores /\ [][NextStores]_vars

\* the number of symbols two strings share at their start
RECURSIVE CommonPrefix(_, _)
CommonPrefix(a, b) ==
    IF a = << >> \/ b = << >> \/ a[1] # b[1] THEN 0
    ELSE 1 + CommonPrefix(Tail(a), Tail(b))

\* the number of edges from cell s along str[i..] to a separate cell, and that
\* cell; edges is -1 when an edge is missing
RECURSIVE EdgesToSeparate(_, _, _, _)
EdgesToSeparate(d, s, str, i) ==
    LET more(n) == IF n.edges < 0 THEN n ELSE [n EXCEPT !.edges = @ + 1]
        next(base) ==
            IF i > Len(str) \/ get_check(d, base + str[i]) # s
            THEN [edges |-> -1, sep |-> s]
            ELSE more(EdgesToSeparate(d, base + str[i], str, i + 1))
    IN  IF get_base(d, s) < 0 THEN [edges |-> 0, sep |-> s]
        ELSE next(get_base(d, s))

\* C34: in a trie that store and store_if_absent made, the separate cell of a
\* stored key is as many edges from the root as one more than the most symbols
\* the key shares at its start with another stored key (one edge when it is
\* the only key), the strings being the packed ones with their terminator, and
\* the tail of the cell holds the symbols of the key after those edges.
C34_BranchDepth ==
    LET stored == {k \in DeepKeys : expect[k] # NoData}
        packed(k) == alpha_map_char_to_trie_str(trie.alpha_map, k).str
        shared(k) == {CommonPrefix(packed(k), packed(k2)) : k2 \in stored \ {k}}
        most(S) == IF S = {} THEN 0 ELSE CHOOSE n \in S : \A m \in S : m <= n
        placed(str, e, depth) ==
            /\ e.edges = depth
            /\ tail_get_suffix(trie.tail, -get_base(trie.da, e.sep))
               = Terminated(SubSeq(str, depth + 1, Len(str)))
    IN  \A k \in stored :
            placed(packed(k), EdgesToSeparate(trie.da, get_root, packed(k), 1),
                   1 + most(shared(k)))

\* two stored keys share two symbols, the second stored having found the first
\* of them in the tail of the other, and a third key shares nothing with them
C34_Witness ==
    /\ last.path = "split" /\ last.ret
    /\ \E k \in DeepKeys \ {last.key} :
          /\ expect[k] # NoData
          /\ CommonPrefix(k, last.key) = 2
          /\ EdgesToSeparate(trie.da, get_root,
                             alpha_map_char_to_trie_str(trie.alpha_map, k).str, 1).edges = 3
    /\ \E k \in DeepKeys : expect[k] # NoData /\ CommonPrefix(k, last.key) = 0

\* C35: after every call of store, store_if_absent and delete, each cell of the
\* pool that is in use is either a separate cell whose tail entry is allocated
\* or a cell with a base above 0 and at least one child.
C35_NoChildlessBranch ==
    LET child(d, s, c) ==
            get_base(d, s) + c < Len(d) /\ get_check(d, get_base(d, s) + c) = s
        kept(d, s) ==
            IF get_base(d, s) < 0 THEN TailAllocated(trie.tail, -get_base(d, s))
            ELSE get_base(d, s) > 0 /\ \E c \in 0..TRIE_CHAR_MAX : child(d, s, c)
    IN  last.kind \in {"new", "store", "store_if_absent", "delete"}
        => \A s \in DA_POOL_BEGIN..(Len(trie.da) - 1) :
               get_check(trie.da, s) >= 0 => kept(trie.da, s)

\* a delete freed the separate cell of the last key and its parent, which had
\* no other child any more
C35_Witness ==
    /\ last.kind = "delete" /\ last.ret /\ last.path = "darray"
    /\ last.data = 2
    /\ Len(trie.da) > DA_POOL_BEGIN /\ OwnedCells(trie.da) = {}

\* C36: when the calls have left no key in the trie, the root has no child,
\* every cell of the pool is on the free list and every tail entry is free.
C36_EmptyTrieLeaksNothing ==
    LET ring(w) == {w.ring[i] : i \in 1..Len(w.ring)}
        nothing_kept(d, tl) ==
            /\ \A c \in 0..TRIE_CHAR_MAX :
                  ~(get_base(d, get_root) + c < Len(d)
                    /\ get_check(d, get_base(d, get_root) + c) = get_root)
            /\ \A s \in DA_POOL_BEGIN..(Len(d) - 1) :
                  get_check(d, s) < 0 /\ s \in ring(FreeRing(d, get_free_list, << >>))
            /\ \A t \in 1..Len(tl.tails) : TailIsFree(tl, t)
    IN  (last.kind \in {"new", "store", "store_if_absent", "delete"} /\ StoredKeys = {})
        => nothing_kept(trie.da, trie.tail)

\* the last of two keys that shared a branch cell was deleted
C36_Witness ==
    /\ last.kind = "delete" /\ last.ret
    /\ StoredKeys = {}
    /\ Len(trie.tail.tails) >= 2
    /\ last.data >= 2

\* C37: once next() of an iterator has returned None, every later call of
\* next() on it returns None.
C37_IteratorFused ==
    LET fused(rets) == \A i, j \in 1..Len(rets) : (i < j /\ ~rets[i]) => ~rets[j]
    IN  \A r \in Readers : readers[r].phase = "under" => fused(readers[r].rets)

\* next() was called twice more after the None that followed two items
C37_Witness ==
    \E r \in Readers :
        /\ readers[r].phase = "under"
        /\ ~readers[r].it.root.is_suffix
        /\ Len(readers[r].items) >= 2
        /\ Len(readers[r].rets) = Len(readers[r].items) + MaxNones + 1

\* C38: for a state that walks from root() reached and every character c,
\* is_walkable(c) is true exactly when walk(c) on a clone of the state returns
\* true, and exactly when c is one of walkable_chars(), which does not panic.
C38_WalkableAgree ==
    LET among(c, chars) == \E i \in 1..Len(chars) : chars[i] = c
        agree(st, c, w) ==
            /\ ~w.panics
            /\ state_is_walkable(trie, st, c) <=> state_walk(trie, st, c).ret
            /\ state_is_walkable(trie, st, c) <=> among(c, w.chars)
    IN  \A r \in Readers :
            readers[r].phase = "state"
            => \A c \in WalkChars :
                   agree(readers[r].state, c, state_walkable_chars(trie, readers[r].state))

\* C39: a state in suffix mode that walks which returned true reached, the walk
\* of the terminator among them, has a suffix_idx from 0 up to the length of
\* its tail suffix less one, so that walkable_chars() does not panic.
C39_SuffixIdxInBounds ==
    LET within(st, suffix) ==
            /\ 0 <= st.suffix_idx /\ st.suffix_idx < Len(suffix)
            /\ ~state_walkable_chars(trie, st).panics
    IN  \A r \in Readers :
            (readers[r].phase = "state" /\ readers[r].state.is_suffix)
            => within(readers[r].state, tail_get_suffix(trie.tail, readers[r].state.index))

(***************************************************************************)
(* extend_pool called on the double array of a trie that calls made, with  *)
(* an index that is negative, 0, within the cells, up to MaxGrow beyond    *)
(* them, or TRIE_INDEX_MAX.  last holds the index, the result and the      *)
(* number of cells before the call.                                        *)
(***************************************************************************)
\* the most cells one call adds
MaxGrow == 3

ExtendPoolCall(to_index) ==
    LET extended(e) ==
            /\ last.path # "darray"
            /\ trie' = [trie EXCEPT !.da = e.da]
            /\ last' = [kind |-> "extend_pool", key |-> << to_index >>,
                        data |-> Len(trie.da),
                        ret |-> e.ok, path |-> "darray",
                        moved |-> CellsMoved(trie.da, e.da)]
            /\ UNCHANGED << expect, nops, stream, alpha, readers, index_max >>
    IN  extended(extend_pool(trie.da, to_index))

NextPool ==
    \/ last.path # "darray" /\ NextCall
    \/ \E to_index \in (-1)..(Len(trie.da) + MaxGrow - 1) : ExtendPoolCall(to_index)
    \/ ExtendPoolCall(TRIE_INDEX_MAX)

SpecPool == Init /\ [][NextPool]_vars

\* C40: extend_pool(to_index) returns false and changes nothing when to_index
\* <= 0 or to_index >= TRIE_INDEX_MAX, and returns true and changes nothing
\* when to_index is below the number of cells; otherwise it returns true, the
\* cells are to_index + 1 then, the new cells are free and follow the old free
\* list in the order of their indexes, and no cell that was in use is
\* changed.  No call makes the cells fewer.
C40_ExtendPool ==
    [][LET ring(d) == FreeRing(d, get_free_list, << >>).ring
           grown(d, d2, to_index) ==
               /\ Len(d2) = to_index + 1
               /\ \A s \in Len(d)..to_index : get_check(d2, s) < 0
               /\ ring(d2) = ring(d) \o [i \in 1..(to_index + 1 - Len(d)) |-> Len(d) + i - 1]
               /\ FreeRing(d2, get_free_list, << >>).back
               /\ \A s \in (get_free_list + 1)..(Len(d) - 1) :
                     get_check(d, s) >= 0 => d2[s + 1] = d[s + 1]
           extended(d, d2, to_index, ret) ==
               IF to_index <= 0 \/ to_index >= TRIE_INDEX_MAX THEN ~ret /\ d2 = d
               ELSE IF to_index < Len(d) THEN ret /\ d2 = d
               ELSE ret /\ grown(d, d2, to_index)
       IN  /\ Len(trie'.da) >= Len(trie.da)
           /\ last'.kind = "extend_pool"
              => extended(trie.da, trie'.da, last'.key[1], last'.ret)]_vars

\* extend_pool added two cells or more behind a free list that was not empty,
\* in a double array with cells in use
C40_Witness ==
    /\ last.kind = "extend_pool" /\ last.ret
    /\ Len(trie.da) >= last.data + 2
    /\ OwnedCells(trie.da) # {}
    /\ \E s \in DA_POOL_BEGIN..(last.data - 1) : get_check(trie.da, s) < 0

====
